---- MODULE Spec2Model ----
(***************************************************************************)
(* Real-time direct messaging of the django-react social media backend:    *)
(* the WebSocket ChatConsumer (messaging/consumers.py), the channel-layer  *)
(* broadcast groups it uses, the mutual-follow gate                        *)
(* (messaging/permissions.py), the follow toggle (base/views.py) and the   *)
(* Conversation/Message store written by the REST send-message view        *)
(* (messaging/views.py, messaging/models.py).                              *)
(*                                                                         *)
(* Strings of the program (usernames, room names, message contents) are    *)
(* sequences of one-character strings, so that split('_'), strip() and     *)
(* len() are computed as the code computes them.                           *)
(***************************************************************************)
EXTENDS Integers, Sequences, FiniteSets, TLC

VARIABLES
    followers,      \* MyUser.followers: followers[u] = users that follow u
    conn,           \* per connection: the ChatConsumer instance and its socket
    groups,         \* channel layer: set of <<group name, channel>> memberships
    queue,          \* channel layer: per channel, the events waiting for dispatch
    outbox,         \* per connection: the frames sent to the client, in order
    conversations,  \* Conversation rows
    messages,       \* Message rows, in creation order
    rest,           \* REST requests on the store: where each one stands
    lastIn,         \* the last inbound frame handled by receive(), its connection
                    \* and the number of follow toggles made before it
    nrecv,          \* number of inbound frames handled so far
    ntoggle,        \* number of follow toggles so far
    now,            \* timezone.now(): the server clock
    nsent,          \* number of Message rows created so far in this run
    loaded,         \* a Message instance held in memory by a worker
    reply,          \* the last response of a REST read or mark-read call
    scope,          \* the connection scope of the last WebSocket handshake
    walk,           \* a client paging backwards through a conversation's history
    toggling,       \* toggle_follow requests: where each one stands
    calls           \* REST read and mark-read calls: where each one stands

vars == <<followers, conn, groups, queue, outbox, conversations, messages, rest,
          lastIn, nrecv, ntoggle, now, nsent, loaded, reply, scope, walk,
          toggling, calls>>

----------------------------------------------------------------------------
(* Bounds of the model *)

MaxConns == 2          \* connections (consumer instances) over a run
MaxFrames == 1         \* inbound frames handled over a run
MaxOrderFrames == 2    \* inbound frames handled over a run of concurrent
                       \* senders
MaxToggles == 2        \* toggle_follow requests over a run
MaxMessages == 1       \* Message rows created over a run
MaxReqs == 2           \* REST requests on the store over a run, and REST
                       \* read calls in flight at one time
MaxClock == 4          \* the latest clock reading of a run

(* Program constants *)

MaxContentLen == 2000
CloseUnauthenticated == 4001
ClosePermissionDenied == 4003

----------------------------------------------------------------------------
(* Strings *)

Sep == "_"
WordChars == {"a", "b", "c", "z", "_"}
Spaces == {" ", "\t", "\n"}

Str(c) == <<c>>
Rep(n) == [i \in 1..n |-> "x"]

Alice == Str("a")
Bob == Str("b")
Carol == Str("c")
Zed == Str("z")

\* MyUser rows: usernames are the primary key (base/models.py)
Users == {Alice, Bob, Carol}

\* str.split('_')
RECURSIVE Split(_)
Split(s) ==
    IF \A i \in 1..Len(s) : s[i] # Sep
    THEN <<s>>
    ELSE LET i == CHOOSE i \in 1..Len(s) :
                      s[i] = Sep /\ \A j \in 1..(i - 1) : s[j] # Sep
         IN  <<SubSeq(s, 1, i - 1)>> \o Split(SubSeq(s, i + 1, Len(s)))

\* str.strip()
RECURSIVE LStrip(_)
LStrip(s) == IF s = <<>> \/ Head(s) \notin Spaces THEN s ELSE LStrip(Tail(s))

RECURSIVE RStrip(_)
RStrip(s) ==
    IF s = <<>> \/ s[Len(s)] \notin Spaces THEN s
    ELSE RStrip(SubSeq(s, 1, Len(s) - 1))

Strip(s) == RStrip(LStrip(s))

\* 'x'.join(tokens) with the room separator
RECURSIVE Join(_)
Join(tokens) ==
    IF Len(tokens) = 0 THEN <<>>
    ELSE IF Len(tokens) = 1 THEN tokens[1]
    ELSE tokens[1] \o <<Sep>> \o Join(Tail(tokens))

----------------------------------------------------------------------------
(* Social graph gate: messaging/permissions.py, base/views.py *)

\* user.followers.filter(username=follower).exists(): one query on the
\* follow graph as it is when the query runs (AnonymousUser has no row)
follows(fol, follower, user) == user \in DOMAIN fol /\ follower \in fol[user]

\* a and b follow each other in fol
mutual_in(fol, a, b) == follows(fol, a, b) /\ follows(fol, b, a)

\* mutant: the test for one and the same user is missing
check_mutual_follow_no_self_test(user1, user2, user1_follows_user2, user2_follows_user1) ==
    user1_follows_user2 /\ user2_follows_user1

\* check_mutual_follow(user1, user2), given the answers of its two queries
check_mutual_follow(user1, user2, user1_follows_user2, user2_follows_user1) ==
    IF user1 = user2 THEN FALSE
    ELSE user1_follows_user2 /\ user2_follows_user1

\* can_message_user(from_user, to_user): <<can_message, reason>>
can_message_user(from_user, to_user, from_follows_to, to_follows_from) ==
    IF from_user = to_user THEN <<FALSE, "Cannot message yourself">>
    ELSE IF ~check_mutual_follow(from_user, to_user, from_follows_to,
                                 to_follows_from)
         THEN <<FALSE, "You can only message users who follow you back">>
         ELSE <<TRUE, "None">>

\* the follow graph after toggle_follow by my_user on user_requesting, whose
\* membership test answered `following`
toggle_follow(fol, my_user, user_requesting, following) ==
    IF following
    THEN [fol EXCEPT ![user_requesting] = @ \ {my_user}]
    ELSE [fol EXCEPT ![user_requesting] = @ \cup {my_user}]

----------------------------------------------------------------------------
(* Identities, connections, channel layer *)

\* scope['user']: a MyUser row or AnonymousUser (whose username is '')
Anonymous == [auth |-> FALSE, username |-> <<>>]
UserIdentity(u) == [auth |-> TRUE, username |-> u]
Identities == {Anonymous} \cup {UserIdentity(u) : u \in Users}

Conns == 1..MaxConns

NoCode == 0
NoId == 0
NoTime == 0            \* a NULL timestamp (read_at of an unread message)

\* a consumer instance and its socket.  state: "idle" (no handshake yet),
\* inside connect() "checking" (first follow query answered, held in
\* follows), "checked" (allowed to join), "joined" (group_add done),
\* "accepted" (accept done); after connect() "noroute", "rejected",
\* "crashed" or "open"; inside disconnect() "leaving" (user_left sent);
\* "closed" after it.  mutual and apart are a history of the run that no
\* step reads: whether the user and the other participant were (mutual), and
\* whether they were not (apart), mutual followers at some moment from the
\* first follow query of connect() to the second
IdleConn == [state |-> "idle", user |-> Anonymous, room |-> <<>>,
             close_code |-> NoCode, accepted |-> FALSE, follows |-> FALSE,
             mutual |-> FALSE, apart |-> FALSE]

\* self.room_group_name = f'chat_{self.room_name}'
room_group_name(room) == <<"c", "h", "a", "t", "_">> \o room

\* websocket_urlpatterns: r'ws/chat/(?P<room_name>\w+)/$'
RouteMatches(room) ==
    Len(room) > 0 /\ \A i \in 1..Len(room) : room[i] \in WordChars

\* events carried by the channel layer (a missing key holds the neutral value)
Event(t) == [type |-> t, content |-> <<>>, sender |-> <<>>, message_id |-> NoId,
             username |-> <<>>, is_typing |-> FALSE, reader |-> <<>>,
             message_ids |-> <<>>]

\* frames sent to the client
Frame(t) == [type |-> t, content |-> <<>>, sender |-> <<>>, message_id |-> NoId,
             username |-> <<>>, is_typing |-> FALSE, reader |-> <<>>,
             message_ids |-> <<>>, message |-> <<>>]

ErrorFrame(msg) == [Frame("error") EXCEPT !.message = msg]

\* The channel layer is configured outside the consumer; its three
\* operations are taken as the registry of broadcast groups describes them:
\* broadcast(room, event) delivers the event to every joined connection, in
\* the order the broadcasts were made (broadcasts are serialized through the
\* room's group); join and leave add and remove one connection
\* channel_layer.group_send: one copy of the event at the end of each member
\* channel
group_send(q, grp, g, ev) ==
    [c \in Conns |-> IF <<g, c>> \in grp THEN Append(q[c], ev) ELSE q[c]]

\* channel_layer.group_add / group_discard
group_add(grp, g, c) == grp \cup {<<g, c>>}
group_discard(grp, g, c) == grp \ {<<g, c>>}

----------------------------------------------------------------------------
(* Room authorizer: ChatConsumer._can_join_room, _check_mutual_follow *)

\* other_username of _can_join_room, for a room name of two tokens or more
other_participant(username, room) ==
    LET participants == Split(room)
    IN  IF participants[2] = username THEN participants[1]
        ELSE participants[2]

\* MyUser.objects.get(username=other_username) then check_mutual_follow,
\* given the answers of its two queries
ws_check_mutual_follow(username, other_username, user1_follows_user2, user2_follows_user1) ==
    IF other_username \in Users
    THEN check_mutual_follow(username, other_username, user1_follows_user2,
                             user2_follows_user1)
    ELSE FALSE

\* mutant: the participant check is skipped
can_join_room_any_user(username, room, user1_follows_user2, user2_follows_user1) ==
    LET participants == Split(room) IN
    IF Len(participants) < 2 THEN "raise"
    ELSE IF ws_check_mutual_follow(username, other_participant(username, room),
                                   user1_follows_user2, user2_follows_user1)
         THEN "yes" ELSE "no"

\* "yes", "no", or "raise" when participants[1] does not exist (IndexError)
can_join_room(username, room, user1_follows_user2, user2_follows_user1) ==
    LET participants == Split(room) IN
    IF ~\E i \in 1..Len(participants) : participants[i] = username
    THEN "no"
    ELSE IF Len(participants) < 2 THEN "raise"
    ELSE IF ws_check_mutual_follow(username, other_participant(username, room),
                                   user1_follows_user2, user2_follows_user1)
         THEN "yes" ELSE "no"

\* mutant: the anonymous identity is not checked before the room checks
ConnectOutcome_no_auth_check(ident, room, user1_follows_user2, user2_follows_user1) ==
    IF ~RouteMatches(room) THEN "noroute"
    ELSE LET can_join == can_join_room(ident.username, room,
                             user1_follows_user2, user2_follows_user1) IN
         IF can_join = "raise" THEN "raise"
         ELSE IF can_join = "no" THEN "denied"
         ELSE "accept"

\* the outcome of the checks of ChatConsumer.connect, given the answers of
\* the two follow queries: "noroute", "unauthenticated", "denied", "raise"
\* or "accept"
ConnectOutcome(ident, room, user1_follows_user2, user2_follows_user1) ==
    IF ~RouteMatches(room) THEN "noroute"
    ELSE IF ~ident.auth THEN "unauthenticated"
    ELSE LET can_join == can_join_room(ident.username, room,
                             user1_follows_user2, user2_follows_user1) IN
         IF can_join = "raise" THEN "raise"
         ELSE IF can_join = "no" THEN "denied"
         ELSE "accept"

\* connect() gets as far as the follow queries: their answers decide
AsksFollowers(ident, room) ==
    ConnectOutcome(ident, room, TRUE, TRUE)
        # ConnectOutcome(ident, room, FALSE, FALSE)

\* mutant: every refusal closes with the permission code
close_code_one(outcome) == ClosePermissionDenied

\* the code of self.close(code=...) for a refusal
close_code(outcome) ==
    IF outcome = "unauthenticated" THEN CloseUnauthenticated
    ELSE ClosePermissionDenied

\* the consumer after the checks of connect() came out as outcome
Checked(c, outcome) ==
    CASE outcome = "noroute" -> [c EXCEPT !.state = "noroute"]
      [] outcome \in {"unauthenticated", "denied"} ->
             [c EXCEPT !.state = "rejected", !.close_code = close_code(outcome)]
      [] outcome = "raise" -> [c EXCEPT !.state = "crashed"]
      [] outcome = "accept" -> [c EXCEPT !.state = "checked"]

\* ChatConsumer.connect on connection k, up to the first query of
\* check_mutual_follow (does the user follow the other participant); a
\* connect() that is decided without the follow graph ends here
Connect(k, ident, room) ==
    /\ conn[k].state = "idle"
    /\ IF k = 1 THEN TRUE ELSE conn[k - 1].state # "idle"
    /\ LET me == [IdleConn EXCEPT !.user = ident, !.room = room]
       IN  conn' = [conn EXCEPT ![k] =
               IF AsksFollowers(ident, room)
               THEN [me EXCEPT !.state = "checking",
                        !.follows = follows(followers, ident.username,
                                        other_participant(ident.username, room)),
                        !.mutual = mutual_in(followers, ident.username,
                                       other_participant(ident.username, room)),
                        !.apart = ~mutual_in(followers, ident.username,
                                      other_participant(ident.username, room))]
               ELSE Checked(me, ConnectOutcome(ident, room, FALSE, FALSE))]
    /\ UNCHANGED <<followers, groups, queue, outbox, conversations, messages,
                   rest, lastIn, nrecv, ntoggle, now, nsent, loaded, reply,
                   scope, walk, toggling, calls>>

\* connect(): the second query of check_mutual_follow (does the other
\* participant follow the user), and what connect() makes of the two answers
ConnectCheck(k) ==
    /\ conn[k].state = "checking"
    /\ LET me == conn[k].user.username
           back == follows(followers, other_participant(me, conn[k].room), me)
       IN  conn' = [conn EXCEPT ![k] =
               Checked(@, ConnectOutcome(conn[k].user, conn[k].room,
                                         conn[k].follows, back))]
    /\ UNCHANGED <<followers, groups, queue, outbox, conversations, messages,
                   rest, lastIn, nrecv, ntoggle, now, nsent, loaded, reply,
                   scope, walk, toggling, calls>>

\* connect(): await channel_layer.group_add(room_group_name, channel_name)
ConnectJoin(k) ==
    /\ conn[k].state = "checked"
    /\ groups' = group_add(groups, room_group_name(conn[k].room), k)
    /\ conn' = [conn EXCEPT ![k].state = "joined"]
    /\ UNCHANGED <<followers, queue, outbox, conversations, messages,
                   rest, lastIn, nrecv, ntoggle, now, nsent, loaded, reply,
                   scope, walk, toggling, calls>>

\* connect(): await self.accept()
ConnectAccept(k) ==
    /\ conn[k].state = "joined"
    /\ conn' = [conn EXCEPT ![k].state = "accepted", ![k].accepted = TRUE]
    /\ UNCHANGED <<followers, groups, queue, outbox, conversations, messages,
                   rest, lastIn, nrecv, ntoggle, now, nsent, loaded, reply,
                   scope, walk, toggling, calls>>

\* connect(): await channel_layer.group_send(user_joined); connect() returns
ConnectAnnounce(k) ==
    /\ conn[k].state = "accepted"
    /\ queue' = group_send(queue, groups, room_group_name(conn[k].room),
                    [Event("user_joined") EXCEPT
                         !.username = conn[k].user.username])
    /\ conn' = [conn EXCEPT ![k].state = "open"]
    /\ UNCHANGED <<followers, groups, outbox, conversations, messages,
                   rest, lastIn, nrecv, ntoggle, now, nsent, loaded, reply,
                   scope, walk, toggling, calls>>

\* ChatConsumer.disconnect on connection k (the server reports the closed
\* socket of an accepted or of a refused connection):
\* await channel_layer.group_send(user_left)
Disconnect(k) ==
    /\ conn[k].state \in {"open", "rejected"}
    /\ queue' = group_send(queue, groups, room_group_name(conn[k].room),
                    [Event("user_left") EXCEPT
                         !.username = conn[k].user.username])
    /\ conn' = [conn EXCEPT ![k].state = "leaving"]
    /\ UNCHANGED <<followers, groups, outbox, conversations, messages,
                   rest, lastIn, nrecv, ntoggle, now, nsent, loaded, reply,
                   scope, walk, toggling, calls>>

\* disconnect(): await channel_layer.group_discard(room_group_name,
\* channel_name); disconnect() returns
DisconnectDiscard(k) ==
    /\ conn[k].state = "leaving"
    /\ groups' = group_discard(groups, room_group_name(conn[k].room), k)
    /\ conn' = [conn EXCEPT ![k].state = "closed"]
    /\ UNCHANGED <<followers, queue, outbox, conversations, messages,
                   rest, lastIn, nrecv, ntoggle, now, nsent, loaded, reply,
                   scope, walk, toggling, calls>>

Toggles == 1..MaxToggles

\* a toggle_follow request: following is the answer of its membership test
IdleToggle == [pc |-> "idle", me |-> <<>>, target |-> <<>>,
               following |-> FALSE]

\* toggle_follow view of request t: my_user in user_requesting.followers.all()
ToggleFollow(t, me, target) ==
    /\ toggling[t].pc = "idle"
    /\ IF t = 1 THEN TRUE ELSE toggling[t - 1].pc # "idle"
    /\ toggling' = [toggling EXCEPT ![t] =
           [pc |-> "write", me |-> me, target |-> target,
            following |-> follows(followers, me, target)]]
    /\ UNCHANGED <<followers, conn, groups, queue, outbox, conversations,
                   messages, rest, lastIn, nrecv, ntoggle, now, nsent, loaded,
                   reply, scope, walk, calls>>

\* toggle_follow view of request t: followers.remove(my_user) or
\* followers.add(my_user), and the response now_following (the checks that
\* wait between their two follow queries note whether their pair is mutual
\* now)
ToggleWrite(t) ==
    /\ toggling[t].pc = "write"
    /\ followers' = toggle_follow(followers, toggling[t].me, toggling[t].target,
                                  toggling[t].following)
    /\ toggling' = [toggling EXCEPT ![t].pc = "done"]
    /\ ntoggle' = ntoggle + 1
    /\ conn' = [k \in Conns |->
                   IF conn[k].state = "checking"
                   THEN [conn[k] EXCEPT
                            !.mutual = @ \/ mutual_in(followers',
                                conn[k].user.username,
                                other_participant(conn[k].user.username,
                                                  conn[k].room)),
                            !.apart = @ \/ ~mutual_in(followers',
                                conn[k].user.username,
                                other_participant(conn[k].user.username,
                                                  conn[k].room))]
                   ELSE conn[k]]
    /\ rest' = [r \in DOMAIN rest |->
                   IF rest[r].pc = "gate"
                   THEN [rest[r] EXCEPT
                            !.mutual = @ \/ mutual_in(followers',
                                rest[r].user, rest[r].target),
                            !.apart = @ \/ ~mutual_in(followers',
                                rest[r].user, rest[r].target)]
                   ELSE rest[r]]
    /\ UNCHANGED <<groups, queue, outbox, conversations, messages,
                   lastIn, nrecv, now, nsent, loaded, reply, scope, walk,
                   calls>>

----------------------------------------------------------------------------
(* Inbound frames: ChatConsumer.receive and its handlers *)

\* a JSON value of a field: absent key, string, null or number
Absent == [kind |-> "absent", val |-> <<>>]
JNull == [kind |-> "null", val |-> <<>>]
JNum == [kind |-> "number", val |-> <<>>]
JStr(s) == [kind |-> "str", val |-> s]

\* the 'type' key: absent, a string or null
TypeAbsent == [kind |-> "absent", val |-> ""]
TypeNull == [kind |-> "null", val |-> ""]
TypeStr(t) == [kind |-> "str", val |-> t]

\* the 'message_ids' key: absent or a list of identifiers
JList(l) == [kind |-> "list", val |-> l]

\* text_data as the client sent it: json is "invalid" (not parseable:
\* json.loads raises JSONDecodeError), "deep" (not parseable, brackets
\* nested deeper than the interpreter's recursion limit, '[' * 100000:
\* json.loads raises RecursionError),
\* "other" (parseable, not an object) or "object" with the three keys
InFrame(j, t, c, ids) == [json |-> j, type |-> t, content |-> c, message_ids |-> ids]

Hi == <<"h", "i">>

Contents ==
    { <<>>, <<" ", "\t", "\n">>, <<" ">> \o Hi \o <<"\n">>,
      <<" ">> \o Rep(MaxContentLen) \o <<" ">>, Rep(MaxContentLen + 1),
      Rep(2500) }


ContentVals == {Absent, JNull, JNum} \cup {JStr(c) : c \in Contents}

KnownTypes == {"chat_message", "typing_start", "typing_stop", "mark_read"}

IdLists == {Absent, JList(<<1, 7>>)}

InFrames ==
    {InFrame("invalid", TypeAbsent, Absent, Absent),
     InFrame("deep", TypeAbsent, Absent, Absent),
     InFrame("other", TypeAbsent, Absent, Absent)}
    \cup {InFrame("object", TypeStr("chat_message"), c, Absent) :
              c \in ContentVals}
    \cup {InFrame("object", TypeAbsent, JStr(Hi), Absent)}
    \cup {InFrame("object", TypeStr(t), Absent, Absent) :
              t \in {"typing_start", "typing_stop", "bogus"}}
    \cup {InFrame("object", TypeNull, Absent, Absent)}
    \cup {InFrame("object", TypeStr("mark_read"), Absent, ids) : ids \in IdLists}

\* data.get('type', 'chat_message')
message_type(frame) ==
    IF frame.type.kind = "absent" THEN TypeStr("chat_message") ELSE frame.type

\* what receive() does with a frame:
\*   [act |-> "error", message]   one error frame to the sender
\*   [act |-> "send", event]      one group_send to the room group
\*   [act |-> "raise"]            an exception leaves receive()
Reply(a, m, e) == [act |-> a, message |-> m, event |-> e]

\* mutant: the length limit is off by one (>= instead of >)
handle_chat_message_ge(username, frame) ==
    IF frame.content.kind \in {"null", "number"}
    THEN Reply("raise", <<>>, Event("none"))
    ELSE LET content == Strip(frame.content.val) IN
         IF content = <<>>
         THEN Reply("error", <<"Message content cannot be empty">>, Event("none"))
         ELSE IF Len(content) >= MaxContentLen
         THEN Reply("error", <<"Message too long (max 2000 characters)">>,
                    Event("none"))
         ELSE Reply("send", <<>>,
                    [Event("chat_message") EXCEPT !.content = content,
                                                  !.sender = username])

\* mutant: the content is not stripped before the emptiness check
handle_chat_message_nostrip(username, frame) ==
    IF frame.content.kind \in {"null", "number"}
    THEN Reply("raise", <<>>, Event("none"))
    ELSE LET content == frame.content.val IN
         IF content = <<>>
         THEN Reply("error", <<"Message content cannot be empty">>, Event("none"))
         ELSE IF Len(content) > MaxContentLen
         THEN Reply("error", <<"Message too long (max 2000 characters)">>,
                    Event("none"))
         ELSE Reply("send", <<>>,
                    [Event("chat_message") EXCEPT !.content = content,
                                                  !.sender = username])

\* _handle_chat_message
handle_chat_message(username, frame) ==
    IF frame.content.kind \in {"null", "number"}
    THEN Reply("raise", <<>>, Event("none"))
    ELSE LET content == Strip(frame.content.val) IN
         IF content = <<>>
         THEN Reply("error", <<"Message content cannot be empty">>, Event("none"))
         ELSE IF Len(content) > MaxContentLen
         THEN Reply("error", <<"Message too long (max 2000 characters)">>,
                    Event("none"))
         ELSE Reply("send", <<>>,
                    [Event("chat_message") EXCEPT !.content = content,
                                                  !.sender = username])

\* _handle_typing_start / _handle_typing_stop
handle_typing(username, is_typing) ==
    Reply("send", <<>>, [Event("typing_indicator") EXCEPT
                             !.username = username, !.is_typing = is_typing])

\* mutant: the identifiers of the frame are not passed on
handle_mark_read_no_ids(username, frame) ==
    Reply("send", <<>>, [Event("read_receipt") EXCEPT !.reader = username])

\* _handle_mark_read
handle_mark_read(username, frame) ==
    Reply("send", <<>>, [Event("read_receipt") EXCEPT
                             !.reader = username,
                             !.message_ids = frame.message_ids.val])

\* receive(text_data): only json.JSONDecodeError is caught
receive(username, frame) ==
    IF frame.json = "invalid"
    THEN Reply("error", <<"Invalid JSON format">>, Event("none"))
    ELSE IF frame.json \in {"deep", "other"}
    THEN Reply("raise", <<>>, Event("none"))
    ELSE LET t == message_type(frame) IN
         IF t = TypeStr("chat_message") THEN handle_chat_message(username, frame)
         ELSE IF t = TypeStr("typing_start") THEN handle_typing(username, TRUE)
         ELSE IF t = TypeStr("typing_stop") THEN handle_typing(username, FALSE)
         ELSE IF t = TypeStr("mark_read") THEN handle_mark_read(username, frame)
         ELSE Reply("error",
                    <<"Unknown message type: ",
                      IF t.kind = "null" THEN "None" ELSE t.val>>,
                    Event("none"))

\* mutant: receive() checks the gate again and closes the session of a
\* user whose follow was revoked
Receive_rechecks_gate(k, frame) ==
    /\ conn[k].state = "open"
    /\ LET r == receive(conn[k].user.username, frame)
           g == room_group_name(conn[k].room)
       IN
       IF can_join_room(conn[k].user.username, conn[k].room,
              follows(followers, conn[k].user.username,
                      other_participant(conn[k].user.username, conn[k].room)),
              follows(followers,
                      other_participant(conn[k].user.username, conn[k].room),
                      conn[k].user.username)) # "yes"
       THEN /\ conn' = [conn EXCEPT ![k].state = "rejected",
                                    ![k].close_code = ClosePermissionDenied]
            /\ UNCHANGED <<queue, outbox>>
       ELSE
       CASE r.act = "error" ->
              /\ outbox' = [outbox EXCEPT ![k] = Append(@, ErrorFrame(r.message))]
              /\ UNCHANGED <<conn, queue>>
         [] r.act = "send" ->
              /\ queue' = group_send(queue, groups, g, r.event)
              /\ UNCHANGED <<conn, outbox>>
         [] r.act = "raise" ->
              /\ conn' = [conn EXCEPT ![k].state = "crashed"]
              /\ UNCHANGED <<queue, outbox>>
    /\ lastIn' = [k |-> k, frame |-> frame, toggles |-> ntoggle]
    /\ nrecv' = nrecv + 1
    /\ UNCHANGED <<followers, groups, conversations, messages, rest, ntoggle,
                   now, nsent, loaded, reply, scope, walk, toggling, calls>>

\* mutant: the handler sends the sender's own frame straight to its socket
\* and group_sends the event to the other members only
Receive_echo_first(k, frame) ==
    /\ conn[k].state = "open"
    /\ LET r == receive(conn[k].user.username, frame)
           g == room_group_name(conn[k].room)
       IN
       CASE r.act = "error" ->
              /\ outbox' = [outbox EXCEPT ![k] = Append(@, ErrorFrame(r.message))]
              /\ UNCHANGED <<conn, queue>>
         [] r.act = "send" ->
              /\ queue' = group_send(queue, groups \ {<<g, k>>}, g, r.event)
              /\ outbox' = [outbox EXCEPT ![k] =
                     Append(@, [Frame(r.event.type) EXCEPT
                                    !.content = r.event.content,
                                    !.sender = r.event.sender])]
              /\ UNCHANGED conn
         [] r.act = "raise" ->
              /\ conn' = [conn EXCEPT ![k].state = "crashed"]
              /\ UNCHANGED <<queue, outbox>>
    /\ lastIn' = [k |-> k, frame |-> frame, toggles |-> ntoggle]
    /\ nrecv' = nrecv + 1
    /\ UNCHANGED <<followers, groups, conversations, messages, rest, ntoggle,
                   now, nsent, loaded, reply, scope, walk, toggling, calls>>

\* the consumer of connection k handles one inbound frame
Receive(k, frame) ==
    /\ conn[k].state = "open"
    /\ LET r == receive(conn[k].user.username, frame)
           g == room_group_name(conn[k].room)
       IN
       CASE r.act = "error" ->
              /\ outbox' = [outbox EXCEPT ![k] = Append(@, ErrorFrame(r.message))]
              /\ UNCHANGED <<conn, queue>>
         [] r.act = "send" ->
              /\ queue' = group_send(queue, groups, g, r.event)
              /\ UNCHANGED <<conn, outbox>>
         [] r.act = "raise" ->
              /\ conn' = [conn EXCEPT ![k].state = "crashed"]
              /\ UNCHANGED <<queue, outbox>>
    /\ lastIn' = [k |-> k, frame |-> frame, toggles |-> ntoggle]
    /\ nrecv' = nrecv + 1
    /\ UNCHANGED <<followers, groups, conversations, messages, rest, ntoggle,
                   now, nsent, loaded, reply, scope, walk, toggling, calls>>

----------------------------------------------------------------------------
(* Group event handlers: chat_message, typing_indicator, read_receipt,
   user_joined, user_left *)

\* the handlers without their username tests
event_frames_to_all(ev) ==
    CASE ev.type = "chat_message" ->
           <<[Frame("chat_message") EXCEPT !.content = ev.content,
                  !.sender = ev.sender, !.message_id = ev.message_id]>>
      [] ev.type = "typing_indicator" ->
           <<[Frame("typing") EXCEPT !.username = ev.username,
                                     !.is_typing = ev.is_typing]>>
      [] ev.type = "read_receipt" ->
           <<[Frame("read_receipt") EXCEPT !.reader = ev.reader,
                                           !.message_ids = ev.message_ids]>>
      [] ev.type \in {"user_joined", "user_left"} ->
           <<[Frame(ev.type) EXCEPT !.username = ev.username]>>

\* mutant: chat_message skips the sender like the other handlers do
event_frames_sender_excluded(username, ev) ==
    IF ev.type = "chat_message" /\ ev.sender = username THEN <<>>
    ELSE IF ev.type \in {"typing_indicator", "user_joined", "user_left"}
            /\ ev.username = username THEN <<>>
    ELSE IF ev.type = "read_receipt" /\ ev.reader = username THEN <<>>
    ELSE event_frames_to_all(ev)

\* mutant: typing_indicator is echoed to the typing user as well
event_frames_typing_echo(username, ev) ==
    IF ev.type \in {"user_joined", "user_left"} /\ ev.username = username
    THEN <<>>
    ELSE IF ev.type = "read_receipt" /\ ev.reader = username THEN <<>>
    ELSE event_frames_to_all(ev)

\* mutant: the read receipt goes back to the reader too
event_frames_receipt_echo(username, ev) ==
    CASE ev.type = "chat_message" ->
           <<[Frame("chat_message") EXCEPT !.content = ev.content,
                  !.sender = ev.sender, !.message_id = ev.message_id]>>
      [] ev.type = "typing_indicator" ->
           IF ev.username # username
           THEN <<[Frame("typing") EXCEPT !.username = ev.username,
                                          !.is_typing = ev.is_typing]>>
           ELSE <<>>
      [] ev.type = "read_receipt" ->
           <<[Frame("read_receipt") EXCEPT !.reader = ev.reader,
                                           !.message_ids = ev.message_ids]>>
      [] ev.type \in {"user_joined", "user_left"} ->
           IF ev.username # username
           THEN <<[Frame(ev.type) EXCEPT !.username = ev.username]>>
           ELSE <<>>

\* the frames the handler of event ev sends on a connection of username
event_frames(username, ev) ==
    CASE ev.type = "chat_message" ->
           <<[Frame("chat_message") EXCEPT !.content = ev.content,
                  !.sender = ev.sender, !.message_id = ev.message_id]>>
      [] ev.type = "typing_indicator" ->
           IF ev.username # username
           THEN <<[Frame("typing") EXCEPT !.username = ev.username,
                                          !.is_typing = ev.is_typing]>>
           ELSE <<>>
      [] ev.type = "read_receipt" ->
           IF ev.reader # username
           THEN <<[Frame("read_receipt") EXCEPT !.reader = ev.reader,
                                                !.message_ids = ev.message_ids]>>
           ELSE <<>>
      [] ev.type \in {"user_joined", "user_left"} ->
           IF ev.username # username
           THEN <<[Frame(ev.type) EXCEPT !.username = ev.username]>>
           ELSE <<>>

\* the consumer of connection k takes the next event of its channel
Dispatch(k) ==
    /\ conn[k].state = "open"
    /\ queue[k] # <<>>
    /\ outbox' = [outbox EXCEPT
                      ![k] = @ \o event_frames(conn[k].user.username, Head(queue[k]))]
    /\ queue' = [queue EXCEPT ![k] = Tail(@)]
    /\ UNCHANGED <<followers, conn, groups, conversations, messages, rest, lastIn,
                   nrecv, ntoggle,
                   now, nsent, loaded, reply, scope, walk, toggling, calls>>

----------------------------------------------------------------------------
(* Conversation store: messaging/models.py, SendMessageView,
   StartConversationView *)

\* ConversationManager.get_or_create_between: the canonical pair <<p1, p2>>
\* (usernames here are single characters, compared as Python compares them)
CharRank(c) == CASE c = "_" -> 0 [] c = "a" -> 1 [] c = "b" -> 2
                 [] c = "c" -> 3 [] c = "z" -> 4

RECURSIVE StrLess(_, _)
StrLess(s, t) ==
    IF t = <<>> THEN FALSE
    ELSE IF s = <<>> THEN TRUE
    ELSE IF Head(s) # Head(t) THEN CharRank(Head(s)) < CharRank(Head(t))
    ELSE StrLess(Tail(s), Tail(t))

\* mutant: the participants are stored in the caller's order
canonical_pair_unsorted(user1, user2) == <<user1, user2>>

canonical_pair(user1, user2) ==
    IF StrLess(user1, user2) THEN <<user1, user2>> ELSE <<user2, user1>>

\* a Conversation row; id stands for the uuid4 primary key
ConversationRow(id, p1, p2) ==
    [id |-> id, participant_1 |-> p1, participant_2 |-> p2]

\* Conversation.get_room_name
get_room_name(c) == c.participant_1 \o <<Sep>> \o c.participant_2

\* the rows selected by participant_1 = p1, participant_2 = p2
conversation_filter(convs, p1, p2) ==
    {c \in convs : c.participant_1 = p1 /\ c.participant_2 = p2}

\* mutant: the table has no uniqueness constraint
unique_conversation_absent(convs, p1, p2) == TRUE

\* Conversation.Meta: UniqueConstraint(participant_1, participant_2) lets
\* a row <<p1, p2>> be inserted
unique_conversation(convs, p1, p2) == conversation_filter(convs, p1, p2) = {}

\* a primary key no row has
fresh_id(convs) ==
    IF convs = {} THEN 1
    ELSE 1 + (CHOOSE n \in {c.id : c \in convs} :
                  \A c \in convs : c.id <= n)

\* a Message row
NoMessage == [id |-> NoId]

\* no response yet
NoReply == [op |-> "none"]

\* no handshake yet
NoWalk == [state |-> "idle"]
NoScope == [user |-> Anonymous, raised |-> FALSE]

MessageRow(id, conversation, sender, content, created_at) ==
    [id |-> id, conversation |-> conversation, sender |-> sender,
     content |-> content, created_at |-> created_at,
     is_read |-> FALSE, read_at |-> NoTime]

\* SendMessageSerializer + SendMessageView.post: the HTTP status, given the
\* answers of the two follow queries of the gate
\* (CharField trims both fields before it validates them)
send_message_status(user, receiver_username, raw_content, from_follows_to, to_follows_from) ==
    LET receiver == Strip(receiver_username)
        content == Strip(raw_content)
    IN  IF receiver \notin Users THEN 400
        ELSE IF content = <<>> \/ Len(content) > MaxContentLen THEN 400
        ELSE IF receiver = user THEN 400
        ELSE IF ~can_message_user(user, receiver, from_follows_to,
                                  to_follows_from)[1] THEN 403
        ELSE 201

\* StartConversationView.post up to the store: the HTTP status of a refusal,
\* 0 when the request goes on to the store, given the answers of the two
\* follow queries of the gate
start_conversation_gate(user, username, from_follows_to, to_follows_from) ==
    IF username = <<>> THEN 400
    ELSE IF username = user THEN 400
    ELSE IF username \notin Users THEN 404
    ELSE IF ~can_message_user(user, username, from_follows_to,
                              to_follows_from)[1] THEN 403
    ELSE 0

----------------------------------------------------------------------------
(* REST requests on the store, statement by statement: the views run in
   concurrent workers, each database statement is one step *)

Reqs == 1..MaxReqs

NoStatus == 0

\* a request: kind is "send" (SendMessageView) or "start"
\* (StartConversationView); data is the request body as sent, target and
\* content the validated values; follows is the answer of the gate's first
\* query; conversation and created are the result of
\* get_or_create_between, retried tells that it caught an IntegrityError;
\* created_at is the timestamp taken for the Message; status is the HTTP
\* status of the response.  mutual and apart are a history of the run that
\* no step reads: whether caller and target were (mutual), and whether they
\* were not (apart), mutual followers at some moment
\* from the first follow query of the gate to the second
IdleReq == [pc |-> "idle", kind |-> "none", user |-> <<>>,
            data |-> [username |-> <<>>, content |-> <<>>],
            target |-> <<>>, content |-> <<>>, status |-> NoStatus,
            follows |-> FALSE, conversation |-> NoId, created |-> FALSE,
            retried |-> FALSE, created_at |-> NoTime, mutual |-> FALSE,
            apart |-> FALSE]

\* the status of a request's checks, given the answers of the gate's queries
gate_status(kind, user, target, raw_content, from_follows_to, to_follows_from) ==
    IF kind = "send"
    THEN send_message_status(user, target, raw_content, from_follows_to,
                             to_follows_from)
    ELSE start_conversation_gate(user, target, from_follows_to,
                                 to_follows_from)

\* the view validates the request and, unless that refuses it, runs the
\* first query of check_mutual_follow (does the caller follow the target)
RestBegin(r, kind, user, target, raw_content) ==
    /\ rest[r].pc = "idle"
    /\ IF r = 1 THEN TRUE ELSE rest[r - 1].pc # "idle"
    /\ LET refusal == gate_status(kind, user, target, raw_content,
                                  FALSE, FALSE)
           asks == gate_status(kind, user, target, raw_content, TRUE, TRUE)
                       # refusal
           me == [IdleReq EXCEPT
                      !.kind = kind, !.user = user,
                      !.data = [username |-> target, content |-> raw_content],
                      !.target = IF kind = "send" THEN Strip(target)
                                 ELSE target,
                      !.content = IF kind = "send" THEN Strip(raw_content)
                                  ELSE <<>>]
       IN  rest' = [rest EXCEPT ![r] =
                       IF asks
                       THEN [me EXCEPT !.pc = "gate",
                                !.follows = follows(followers, user, me.target),
                                !.mutual = mutual_in(followers, user, me.target),
                                !.apart = ~mutual_in(followers, user, me.target)]
                       ELSE IF refusal \in {201, 0}
                       THEN [me EXCEPT !.pc = "get"]
                       ELSE [me EXCEPT !.pc = "done", !.status = refusal]]
    /\ UNCHANGED <<followers, conn, groups, queue, outbox, conversations,
                   messages, lastIn, nrecv, ntoggle, now, nsent, loaded, reply,
                   scope, walk, toggling, calls>>

\* the second query of check_mutual_follow (does the target follow the
\* caller), and what the view makes of the two answers
RestGate(r) ==
    /\ rest[r].pc = "gate"
    /\ LET back == follows(followers, rest[r].target, rest[r].user)
           status == gate_status(rest[r].kind, rest[r].user,
                                 rest[r].data.username, rest[r].data.content,
                                 rest[r].follows, back)
       IN  rest' = [rest EXCEPT ![r] =
                       IF status \in {201, 0} THEN [@ EXCEPT !.pc = "get"]
                       ELSE [@ EXCEPT !.pc = "done", !.status = status]]
    /\ UNCHANGED <<followers, conn, groups, queue, outbox, conversations,
                   messages, lastIn, nrecv, ntoggle, now, nsent, loaded, reply,
                   scope, walk, toggling, calls>>

\* where a request goes on once it holds its conversation
after_get(kind) == IF kind = "send" THEN "stamp" ELSE "answer"

\* get_or_create: self.get(participant_1=p1, participant_2=p2)
RestGet(r) ==
    /\ rest[r].pc = "get"
    /\ LET p == canonical_pair(rest[r].user, rest[r].target)
           found == conversation_filter(conversations, p[1], p[2])
       IN  rest' = [rest EXCEPT ![r] =
                       IF found = {} THEN [@ EXCEPT !.pc = "create"]
                       ELSE IF Cardinality(found) > 1
                       THEN [@ EXCEPT !.pc = "done", !.status = 500]
                       ELSE [@ EXCEPT !.pc = after_get(rest[r].kind),
                                 !.conversation = (CHOOSE c \in found : TRUE).id]]
    /\ UNCHANGED <<followers, conn, groups, queue, outbox, conversations,
                   messages, lastIn, nrecv, ntoggle, now, nsent, loaded, reply,
                   scope, walk, toggling, calls>>

\* mutant: the IntegrityError of a lost race is not caught
RestCreate_no_retry(r) ==
    /\ rest[r].pc = "create"
    /\ LET p == canonical_pair(rest[r].user, rest[r].target)
           id == fresh_id(conversations)
       IN  IF unique_conversation(conversations, p[1], p[2])
           THEN /\ conversations' =
                       conversations \cup {ConversationRow(id, p[1], p[2])}
                /\ rest' = [rest EXCEPT ![r].pc = after_get(rest[r].kind),
                                        ![r].conversation = id,
                                        ![r].created = TRUE]
           ELSE /\ conversations' = conversations
                /\ rest' = [rest EXCEPT ![r].pc = "done", ![r].status = 500]
    /\ UNCHANGED <<followers, conn, groups, queue, outbox, messages, lastIn,
                   nrecv, ntoggle, now, nsent, loaded, reply, scope, walk,
                   toggling, calls>>

\* get_or_create: self.create(participant_1=p1, participant_2=p2); an
\* IntegrityError of the uniqueness constraint is caught
RestCreate(r) ==
    /\ rest[r].pc = "create"
    /\ LET p == canonical_pair(rest[r].user, rest[r].target)
           id == fresh_id(conversations)
       IN  IF unique_conversation(conversations, p[1], p[2])
           THEN /\ conversations' =
                       conversations \cup {ConversationRow(id, p[1], p[2])}
                /\ rest' = [rest EXCEPT ![r].pc = after_get(rest[r].kind),
                                        ![r].conversation = id,
                                        ![r].created = TRUE]
           ELSE /\ conversations' = conversations
                /\ rest' = [rest EXCEPT ![r].pc = "reget",
                                        ![r].retried = TRUE]
    /\ UNCHANGED <<followers, conn, groups, queue, outbox, messages, lastIn,
                   nrecv, ntoggle, now, nsent, loaded, reply, scope, walk,
                   toggling, calls>>

\* get_or_create: self.get(...) again after the IntegrityError
RestReget(r) ==
    /\ rest[r].pc = "reget"
    /\ LET p == canonical_pair(rest[r].user, rest[r].target)
           found == conversation_filter(conversations, p[1], p[2])
       IN  rest' = [rest EXCEPT ![r] =
                       IF Cardinality(found) # 1
                       THEN [@ EXCEPT !.pc = "done", !.status = 500]
                       ELSE [@ EXCEPT !.pc = after_get(rest[r].kind),
                                 !.conversation = (CHOOSE c \in found : TRUE).id]]
    /\ UNCHANGED <<followers, conn, groups, queue, outbox, conversations,
                   messages, lastIn, nrecv, ntoggle, now, nsent, loaded, reply,
                   scope, walk, toggling, calls>>

\* Conversation.objects.for_user(user)
for_user(convs, user) ==
    {c \in convs : c.participant_1 = user \/ c.participant_2 = user}

\* conversation.get_unread_count(user):
\* self.messages.filter(is_read=False).exclude(sender=user).count()
get_unread_count(msgs, c, user) ==
    Cardinality({i \in DOMAIN msgs : /\ msgs[i].conversation = c.id
                                     /\ ~msgs[i].is_read
                                     /\ msgs[i].sender # user})

\* sum(c.get_unread_count(user) for c in conversations) on one state of the
\* store
RECURSIVE sum_unread(_, _, _)
sum_unread(msgs, convs, user) ==
    IF convs = {} THEN 0
    ELSE LET c == CHOOSE c \in convs : TRUE
         IN  get_unread_count(msgs, c, user) + sum_unread(msgs, convs \ {c}, user)

\* the unread-count calls under way note what their user has unread in msgs
note_unread(cs, convs, msgs) ==
    [x \in DOMAIN cs |->
        IF cs[x].pc = "count"
        THEN [cs[x] EXCEPT !.seen = @ \cup
                 {sum_unread(msgs, for_user(convs, cs[x].user), cs[x].user)}]
        ELSE cs[x]]

\* SendMessageView: Message.objects.create(...) builds the instance;
\* auto_now_add takes created_at from the clock before the INSERT runs
RestStamp(r) ==
    /\ rest[r].pc = "stamp"
    /\ nsent < MaxMessages
    /\ rest' = [rest EXCEPT ![r].pc = "insert", ![r].created_at = now]
    /\ UNCHANGED <<followers, conn, groups, queue, outbox, conversations,
                   messages, lastIn, nrecv, ntoggle, now, nsent, loaded, reply,
                   scope, walk, toggling, calls>>

\* SendMessageView: the INSERT of Message.objects.create(...)
RestWrite(r) ==
    /\ rest[r].pc = "insert"
    /\ nsent < MaxMessages
    /\ nsent' = nsent + 1
    /\ messages' = Append(messages,
           MessageRow(Len(messages) + 1, rest[r].conversation,
                      rest[r].user, rest[r].content, rest[r].created_at))
    /\ rest' = [rest EXCEPT ![r].pc = "save"]
    /\ calls' = note_unread(calls, conversations, messages')
    /\ UNCHANGED <<followers, conn, groups, queue, outbox, conversations,
                   lastIn, nrecv, ntoggle, now, loaded, reply, scope, walk,
                   toggling>>

\* SendMessageView: conversation.save() (the UPDATE of updated_at) and the
\* response 201
RestSave(r) ==
    /\ rest[r].pc = "save"
    /\ rest' = [rest EXCEPT ![r].pc = "done", ![r].status = 201]
    /\ UNCHANGED <<followers, conn, groups, queue, outbox, conversations,
                   messages, lastIn, nrecv, ntoggle, now, nsent, loaded, reply,
                   scope, walk, toggling, calls>>

\* StartConversationView: the response, 201 if the row was created, else 200
RestAnswer(r) ==
    /\ rest[r].pc = "answer"
    /\ rest' = [rest EXCEPT ![r].pc = "done",
                    ![r].status = IF rest[r].created THEN 201 ELSE 200]
    /\ UNCHANGED <<followers, conn, groups, queue, outbox, conversations,
                   messages, lastIn, nrecv, ntoggle, now, nsent, loaded, reply,
                   scope, walk, toggling, calls>>

----------------------------------------------------------------------------
(* Read state: MarkMessagesReadView.patch and Message.mark_as_read *)

\* Conversation.objects.filter(Q(participant_1=user) | Q(participant_2=user))
participant_conversations(convs, user) ==
    {c \in convs : c.participant_1 = user \/ c.participant_2 = user}

\* mutant: the conversation is looked up among all rows
conversation_or_404_any_row(convs, user, conversation_id) ==
    {c \in convs : c.id = conversation_id}

\* get_object_or_404(that queryset, id=conversation_id): the rows found
conversation_or_404(convs, user, conversation_id) ==
    {c \in participant_conversations(convs, user) : c.id = conversation_id}

\* the ids of conversation.messages.filter(is_read=False).exclude(sender=user)
unread_from_others(msgs, user, cid) ==
    {i \in DOMAIN msgs : /\ msgs[i].conversation = cid
                         /\ ~msgs[i].is_read
                         /\ msgs[i].sender # user}

\* mutant: the queryset is not filtered on is_read=False
mark_all_read_every_row(msgs, user, cid, t) ==
    LET hit == {i \in DOMAIN msgs : /\ msgs[i].conversation = cid
                                    /\ msgs[i].sender # user}
    IN  [messages |-> [i \in DOMAIN msgs |->
                          IF i \in hit
                          THEN [msgs[i] EXCEPT !.is_read = TRUE, !.read_at = t]
                          ELSE msgs[i]],
         count |-> Cardinality(hit)]

\* mutant: the reader's own messages are not excluded
mark_all_read_own_too(msgs, user, cid, t) ==
    LET hit == {i \in DOMAIN msgs : /\ msgs[i].conversation = cid
                                    /\ ~msgs[i].is_read}
    IN  [messages |-> [i \in DOMAIN msgs |->
                          IF i \in hit
                          THEN [msgs[i] EXCEPT !.is_read = TRUE, !.read_at = t]
                          ELSE msgs[i]],
         count |-> Cardinality(hit)]

\* .update(is_read=True, read_at=t) on that queryset: one UPDATE statement,
\* which returns the number of rows it matched
mark_all_read(msgs, user, cid, t) ==
    LET hit == unread_from_others(msgs, user, cid)
    IN  [messages |-> [i \in DOMAIN msgs |->
                          IF i \in hit
                          THEN [msgs[i] EXCEPT !.is_read = TRUE, !.read_at = t]
                          ELSE msgs[i]],
         count |-> Cardinality(hit)]

\* the response of a read or mark-read call; seq tells one call from the next
Response(op, user, cid, status, count) ==
    [op |-> op, user |-> user, conversation |-> cid, status |-> status,
     marked_read |-> count, nsent |-> nsent,
     seq |-> IF reply.op = "none" THEN 0 ELSE 1 - reply.seq]

\* REST read and mark-read calls, statement by statement; a call that has
\* answered leaves its place to the next one
Calls == 1..MaxReqs

\* a call: stamp is the timezone.now() it took, page the ids its page query
\* returned, todo the conversations it still has to serialize, count and
\* items what it has computed of its answer, walker whether it is a call of
\* the paging client; seen is the record of an unread-count call, the
\* numbers of unread messages its user had in the store while it ran
IdleCall == [pc |-> "idle", op |-> "none", user |-> <<>>,
             conversation |-> NoId, before |-> <<>>, stamp |-> NoTime,
             page |-> <<>>, todo |-> {}, count |-> 0, items |-> {},
             walker |-> FALSE, seen |-> {}]

\* a place for a new call
FreeCall(c) == calls[c].pc = "idle"

\* PATCH /api/conversations/<id>/read/ by an authenticated user:
\* get_object_or_404 and the timezone.now() of the update's arguments (a
\* row that was found stays as it is, so the lookup is taken at the moment
\* the clock is read)
MarkAllRead(c, user, conversation_id) ==
    /\ FreeCall(c)
    /\ IF conversation_or_404(conversations, user, conversation_id) = {}
       THEN /\ reply' = Response("mark_read", user, conversation_id, 404, 0)
            /\ calls' = calls
       ELSE /\ reply' = reply
            /\ calls' = [calls EXCEPT ![c] =
                   [IdleCall EXCEPT !.pc = "update", !.op = "mark_read",
                        !.user = user, !.conversation = conversation_id,
                        !.stamp = now]]
    /\ UNCHANGED <<followers, conn, groups, queue, outbox, conversations,
                   messages, rest, lastIn, nrecv, ntoggle, now, nsent, loaded,
                   scope, walk, toggling>>

\* mark-all-read: the UPDATE statement and the response
MarkUpdate(c) ==
    /\ calls[c].pc = "update"
    /\ LET upd == mark_all_read(messages, calls[c].user, calls[c].conversation,
                                calls[c].stamp)
       IN  /\ messages' = upd.messages
           /\ reply' = Response("mark_read", calls[c].user,
                                calls[c].conversation, 200, upd.count)
    /\ calls' = note_unread([calls EXCEPT ![c] = IdleCall], conversations,
                            messages')
    /\ UNCHANGED <<followers, conn, groups, queue, outbox, conversations, rest,
                   lastIn, nrecv, ntoggle, now, nsent, loaded, scope, walk,
                   toggling>>

\* timezone.now() moves on
Tick ==
    /\ now < MaxClock
    /\ now' = now + 1
    /\ UNCHANGED <<followers, conn, groups, queue, outbox, conversations,
                   messages, rest, lastIn, nrecv, ntoggle, nsent, loaded,
                   reply, scope, walk, toggling, calls>>

\* a Message instance in a worker's memory: the fields of the row, and
\* whether it holds a change that is not saved yet
Instance(row) == row @@ [dirty |-> FALSE]

\* a worker loads a Message row into an instance: a copy of the row's fields
\* as they are now
LoadMessage(id) ==
    /\ id \in DOMAIN messages
    /\ IF loaded = NoMessage THEN TRUE ELSE ~loaded.dirty
    /\ loaded' = Instance(messages[id])
    /\ loaded' # loaded
    /\ UNCHANGED <<followers, conn, groups, queue, outbox, conversations,
                   messages, rest, lastIn, nrecv, ntoggle, now, nsent, reply,
                   scope, walk, toggling, calls>>

\* Message.mark_as_read() on the loaded instance: the test reads the
\* instance's own is_read, then is_read and read_at = timezone.now() are
\* set on the instance
MarkAsRead ==
    /\ loaded # NoMessage
    /\ ~loaded.dirty
    /\ ~loaded.is_read
    /\ loaded' = [loaded EXCEPT !.is_read = TRUE, !.read_at = now,
                                !.dirty = TRUE]
    /\ UNCHANGED <<followers, conn, groups, queue, outbox, conversations,
                   messages, rest, lastIn, nrecv, ntoggle, now, nsent, reply,
                   scope, walk, toggling, calls>>

\* mark_as_read(): save(update_fields=['is_read', 'read_at']) writes the two
\* fields of the instance to the row
MarkAsReadSave ==
    /\ loaded # NoMessage
    /\ loaded.dirty
    /\ messages' = [messages EXCEPT ![loaded.id].is_read = loaded.is_read,
                                   ![loaded.id].read_at = loaded.read_at]
    /\ loaded' = [loaded EXCEPT !.dirty = FALSE]
    /\ calls' = note_unread(calls, conversations, messages')
    /\ UNCHANGED <<followers, conn, groups, queue, outbox, conversations, rest,
                   lastIn, nrecv, ntoggle, now, nsent, reply, scope, walk,
                   toggling>>

----------------------------------------------------------------------------
(* Unread count: UnreadCountView.get, Conversation.get_unread_count *)

\* the response of the unread-count call
UnreadResponse(user, total) ==
    [op |-> "unread_count", user |-> user, status |-> 200,
     unread_count |-> total, nsent |-> nsent,
     seq |-> IF reply.op = "none" THEN 0 ELSE 1 - reply.seq]

\* GET /api/messages/unread-count/ by an authenticated user: the query of
\* Conversation.objects.for_user(user), run when sum() starts to iterate
UnreadCount(c, user) ==
    /\ FreeCall(c)
    /\ LET todo == for_user(conversations, user)
       IN  IF todo = {}
           THEN /\ reply' = UnreadResponse(user, 0)
                /\ calls' = calls
           ELSE /\ reply' = reply
                /\ calls' = [calls EXCEPT ![c] =
                       [IdleCall EXCEPT !.pc = "count", !.op = "unread_count",
                            !.user = user, !.todo = todo,
                            !.seen = {sum_unread(messages, todo, user)}]]
    /\ UNCHANGED <<followers, conn, groups, queue, outbox, conversations,
                   messages, rest, lastIn, nrecv, ntoggle, now, nsent, loaded,
                   scope, walk, toggling>>

\* unread count: c.get_unread_count(user) of the next conversation, one
\* COUNT query; after the last one the response
UnreadNext(c) ==
    /\ calls[c].pc = "count"
    /\ \E conversation \in calls[c].todo :
          LET total == calls[c].count
                           + get_unread_count(messages, conversation,
                                              calls[c].user)
          IN  IF calls[c].todo = {conversation}
              THEN /\ reply' = UnreadResponse(calls[c].user, total)
                   /\ calls' = [calls EXCEPT ![c] = IdleCall]
              ELSE /\ reply' = reply
                   /\ calls' = [calls EXCEPT
                                    ![c].todo = @ \ {conversation},
                                    ![c].count = total]
    /\ UNCHANGED <<followers, conn, groups, queue, outbox, conversations,
                   messages, rest, lastIn, nrecv, ntoggle, now, nsent, loaded,
                   scope, walk, toggling>>

----------------------------------------------------------------------------
(* Message history: ConversationMessagesView.get *)

\* the slice [:50] of the history query
PageSize == 50

\* Timestamps in a query string are written as one decimal digit (the clock
\* reading), with an optional "Z" for UTC
Digits == <<"0", "1", "2", "3", "4", "5", "6", "7", "8", "9">>
DigitVal(ch) == (CHOOSE i \in 1..10 : Digits[i] = ch) - 1
IsDigit(ch) == \E i \in 1..10 : Digits[i] = ch

\* before.replace('Z', '+00:00'): every "Z" becomes a UTC offset, written "+"
replace_Z(before) ==
    [i \in 1..Len(before) |-> IF before[i] = "Z" THEN "+" ELSE before[i]]

\* datetime.fromisoformat: a timestamp, with an optional UTC offset after it;
\* anything else raises ValueError
fromisoformat(text) ==
    IF Len(text) = 1 /\ IsDigit(text[1])
    THEN [ok |-> TRUE, t |-> DigitVal(text[1])]
    ELSE IF Len(text) = 2 /\ IsDigit(text[1]) /\ text[2] = "+"
    THEN [ok |-> TRUE, t |-> DigitVal(text[1])]
    ELSE [ok |-> FALSE, t |-> NoTime]

\* the ids of conversation.messages.all(), filtered on created_at < before
\* when a before parameter is given and parses
history_queryset(msgs, cid, before) ==
    LET dt == fromisoformat(replace_Z(before))
    IN  SelectSeq([i \in 1..Len(msgs) |-> i],
                  LAMBDA i : /\ msgs[i].conversation = cid
                             /\ (before # <<>> /\ dt.ok)
                                => msgs[i].created_at < dt.t)

\* order_by('-created_at'): newest first; the database orders rows of equal
\* created_at as it likes, here by ascending or by descending id
order_by_created_desc(msgs, ids, tie) ==
    SortSeq(ids, LAMBDA i, j :
                    \/ msgs[i].created_at > msgs[j].created_at
                    \/ /\ msgs[i].created_at = msgs[j].created_at
                       /\ IF tie = "asc" THEN i < j ELSE i > j)

Reverse(seq) == [i \in 1..Len(seq) |-> seq[Len(seq) + 1 - i]]

\* mutant: the page is not reversed
history_page_newest_first(msgs, cid, before, tie) ==
    LET ordered == order_by_created_desc(msgs,
                       history_queryset(msgs, cid, before), tie)
    IN  SubSeq(ordered, 1, IF Len(ordered) < PageSize THEN Len(ordered)
                           ELSE PageSize)

\* list(reversed(messages.order_by('-created_at')[:50])): the ids of the page
history_page(msgs, cid, before, tie) ==
    LET ordered == order_by_created_desc(msgs,
                       history_queryset(msgs, cid, before), tie)
    IN  Reverse(SubSeq(ordered, 1, IF Len(ordered) < PageSize THEN Len(ordered)
                                   ELSE PageSize))

\* has_more: a message of the conversation older than the first of the page
history_has_more(msgs, cid, page) ==
    IF page = <<>> THEN FALSE
    ELSE \E i \in 1..Len(msgs) :
            /\ msgs[i].conversation = cid
            /\ msgs[i].created_at < msgs[page[1]].created_at

\* the response of the history call
HistoryResponse(user, cid, before, status, page, has_more) ==
    [op |-> "history", user |-> user, conversation |-> cid, before |-> before,
     status |-> status, messages |-> page, has_more |-> has_more,
     nsent |-> nsent,
     seq |-> IF reply.op = "none" THEN 0 ELSE 1 - reply.seq]

\* MessageSerializer's created_at as the client reads it: the timestamp in
\* ISO 8601 with "Z" for UTC
isoformat(t) == <<Digits[t + 1], "Z">>

\* the paging client as it sends the first call of a walk
new_walk(msgs, user, conversation_id) ==
    [state |-> "calling", user |-> user, conversation |-> conversation_id,
     returned |-> <<>>, before |-> <<>>, size |-> Len(msgs)]

\* the client after response r: the ids returned so far, and the cursor of
\* the next call, the created_at of the oldest message of the page
walk_after(msgs, r, w) ==
    [w EXCEPT
        !.state = IF r.status = 200 /\ r.has_more THEN "walking" ELSE "done",
        !.returned = @ \o r.messages,
        !.before = IF r.messages = <<>> THEN <<>>
                   ELSE isoformat(msgs[r.messages[1]].created_at)]

\* GET /api/conversations/<id>/messages/?before=... by an authenticated
\* user: get_object_or_404 and the query of the page (a row that was found
\* stays as it is, so the lookup is taken at the moment of the page query);
\* an empty page is answered without another query.  walker tells that
\* the paging client sends the call
History(c, user, conversation_id, before, tie, walker) ==
    /\ FreeCall(c)
    /\ LET found == conversation_or_404(conversations, user, conversation_id)
           page == history_page(messages, conversation_id, before, tie)
           w == IF ~walker THEN walk
                ELSE IF walk.state = "walking"
                THEN [walk EXCEPT !.state = "calling"]
                ELSE new_walk(messages, user, conversation_id)
       IN  IF found = {} \/ page = <<>>
           THEN /\ reply' = HistoryResponse(user, conversation_id, before,
                                IF found = {} THEN 404 ELSE 200, <<>>, FALSE)
                /\ calls' = calls
                /\ walk' = IF walker THEN walk_after(messages, reply', w)
                           ELSE walk
           ELSE /\ reply' = reply
                /\ calls' = [calls EXCEPT ![c] =
                       [IdleCall EXCEPT !.pc = "more", !.op = "history",
                            !.user = user, !.conversation = conversation_id,
                            !.before = before, !.page = page,
                            !.walker = walker]]
                /\ walk' = w
    /\ UNCHANGED <<followers, conn, groups, queue, outbox, conversations,
                   messages, rest, lastIn, nrecv, ntoggle, now, nsent, loaded,
                   scope, toggling>>

\* history: the has_more query (a message of the conversation older than
\* the first of the page) and the response
HistoryMore(c) ==
    /\ calls[c].pc = "more"
    /\ reply' = HistoryResponse(calls[c].user, calls[c].conversation,
                    calls[c].before, 200, calls[c].page,
                    history_has_more(messages, calls[c].conversation,
                                     calls[c].page))
    /\ walk' = IF calls[c].walker THEN walk_after(messages, reply', walk)
               ELSE walk
    /\ calls' = [calls EXCEPT ![c] = IdleCall]
    /\ UNCHANGED <<followers, conn, groups, queue, outbox, conversations,
                   messages, rest, lastIn, nrecv, ntoggle, now, nsent, loaded,
                   scope, toggling>>

\* the first call of a walk: no before parameter
WalkStart(c, user, conversation_id, tie) ==
    /\ walk.state \in {"idle", "done"}
    /\ History(c, user, conversation_id, <<>>, tie, TRUE)

\* the next call of a walk: before = created_at of the oldest message of the
\* previous page
WalkOn(c, tie) ==
    /\ walk.state = "walking"
    /\ History(c, walk.user, walk.conversation, walk.before, tie, TRUE)

\* the slice [:20] of ConversationDetailSerializer.get_recent_messages
RecentSize == 20

\* ConversationSerializer: one item of the conversation list, as user sees it
conversation_item(msgs, c, user) ==
    [id |-> c.id, unread_count |-> get_unread_count(msgs, c, user),
     room_name |-> get_room_name(c)]

\* list(reversed(obj.messages.order_by('-created_at')[:20])): the ids
recent_messages(msgs, cid, tie) ==
    LET ordered == order_by_created_desc(msgs,
                       history_queryset(msgs, cid, <<>>), tie)
    IN  Reverse(SubSeq(ordered, 1, IF Len(ordered) < RecentSize
                                   THEN Len(ordered) ELSE RecentSize))

\* the response of the conversation list
ListResponse(user, items) ==
    [op |-> "list", user |-> user, status |-> 200, conversations |-> items,
     nsent |-> nsent,
     seq |-> IF reply.op = "none" THEN 0 ELSE 1 - reply.seq]

\* GET /api/conversations/ by an authenticated user: the query of
\* Conversation.objects.for_user(user), run when the serializer starts to
\* iterate
ConversationList(c, user) ==
    /\ FreeCall(c)
    /\ LET todo == for_user(conversations, user)
       IN  IF todo = {}
           THEN /\ reply' = ListResponse(user, {})
                /\ calls' = calls
           ELSE /\ reply' = reply
                /\ calls' = [calls EXCEPT ![c] =
                       [IdleCall EXCEPT !.pc = "item", !.op = "list",
                            !.user = user, !.todo = todo]]
    /\ UNCHANGED <<followers, conn, groups, queue, outbox, conversations,
                   messages, rest, lastIn, nrecv, ntoggle, now, nsent, loaded,
                   scope, walk, toggling>>

\* conversation list: ConversationSerializer on the next conversation, whose
\* get_unread_count is one COUNT query; after the last one the response
ListItem(c) ==
    /\ calls[c].pc = "item"
    /\ \E conversation \in calls[c].todo :
          LET items == calls[c].items
                           \cup {conversation_item(messages, conversation,
                                                   calls[c].user)}
          IN  IF calls[c].todo = {conversation}
              THEN /\ reply' = ListResponse(calls[c].user, items)
                   /\ calls' = [calls EXCEPT ![c] = IdleCall]
              ELSE /\ reply' = reply
                   /\ calls' = [calls EXCEPT
                                    ![c].todo = @ \ {conversation},
                                    ![c].items = items]
    /\ UNCHANGED <<followers, conn, groups, queue, outbox, conversations,
                   messages, rest, lastIn, nrecv, ntoggle, now, nsent, loaded,
                   scope, walk, toggling>>

\* the response of the conversation detail
DetailResponse(user, cid, status, items, recent) ==
    [op |-> "detail", user |-> user, conversation |-> cid, status |-> status,
     items |-> items, messages |-> recent, nsent |-> nsent,
     seq |-> IF reply.op = "none" THEN 0 ELSE 1 - reply.seq]

\* GET /api/conversations/<id>/ by an authenticated user: get_object_or_404
\* and the COUNT query of the serializer's unread_count (a row that was
\* found stays as it is, so the lookup is taken at the moment of the COUNT)
ConversationDetail(c, user, conversation_id) ==
    /\ FreeCall(c)
    /\ LET found == conversation_or_404(conversations, user, conversation_id)
       IN  IF found = {}
           THEN /\ reply' = DetailResponse(user, conversation_id, 404, {}, <<>>)
                /\ calls' = calls
           ELSE /\ reply' = reply
                /\ calls' = [calls EXCEPT ![c] =
                       [IdleCall EXCEPT !.pc = "recent", !.op = "detail",
                            !.user = user, !.conversation = conversation_id,
                            !.items = {conversation_item(messages, x, user) :
                                           x \in found}]]
    /\ UNCHANGED <<followers, conn, groups, queue, outbox, conversations,
                   messages, rest, lastIn, nrecv, ntoggle, now, nsent, loaded,
                   scope, walk, toggling>>

\* conversation detail: the query of get_recent_messages and the response
DetailRecent(c, tie) ==
    /\ calls[c].pc = "recent"
    /\ reply' = DetailResponse(calls[c].user, calls[c].conversation, 200,
                    calls[c].items,
                    recent_messages(messages, calls[c].conversation, tie))
    /\ calls' = [calls EXCEPT ![c] = IdleCall]
    /\ UNCHANGED <<followers, conn, groups, queue, outbox, conversations,
                   messages, rest, lastIn, nrecv, ntoggle, now, nsent, loaded,
                   scope, walk, toggling>>

----------------------------------------------------------------------------
(* Handshake authenticator: messaging/middleware.py.  A header value or a
   query string is a sequence of atoms: the separators ";", "&", "=", " " and
   words without separators (names and token texts) *)

\* str.split(sep)
RECURSIVE SplitOn(_, _)
SplitOn(s, sep) ==
    IF \A i \in 1..Len(s) : s[i] # sep
    THEN <<s>>
    ELSE LET i == CHOOSE i \in 1..Len(s) :
                      s[i] = sep /\ \A j \in 1..(i - 1) : s[j] # sep
         IN  <<SubSeq(s, 1, i - 1)>> \o SplitOn(SubSeq(s, i + 1, Len(s)), sep)

\* str.split('=', 1) of an item that holds a '='
SplitFirst(item) ==
    LET i == CHOOSE i \in 1..Len(item) :
                 item[i] = "=" /\ \A j \in 1..(i - 1) : item[j] # "="
    IN  <<SubSeq(item, 1, i - 1), SubSeq(item, i + 1, Len(item))>>

\* '=' in item
HasEq(item) == \E i \in 1..Len(item) : item[i] = "="

\* dict.get(key) on the dict built from a list of <<key, value>> pairs, where
\* a later pair replaces an earlier one of the same key; None when absent
NoneValue == [found |-> FALSE, value |-> <<>>]
dict_get(pairs, key) ==
    LET hits == {i \in 1..Len(pairs) : pairs[i][1] = key}
    IN  IF hits = {} THEN NoneValue
        ELSE [found |-> TRUE,
              value |-> pairs[CHOOSE i \in hits : \A j \in hits : j <= i][2]]

\* the truth value of a str or None
Truthy(v) == v.found /\ v.value # <<>>

\* AccessToken(token_key): the tokens this server signed, and what each
\* carries; any other text, and an expired token, raise TokenError
SignedTokens ==
    [t \in {<<"tokA">>, <<"tokB">>, <<"tokZed">>, <<"tokNoSub">>} |->
        CASE t = <<"tokA">> -> [user_id |-> Alice]
          [] t = <<"tokB">> -> [user_id |-> Bob]
          [] t = <<"tokZed">> -> [user_id |-> Zed]
          [] t = <<"tokNoSub">> -> [user_id |-> <<>>]]

\* get_user_from_token(token_key)
get_user_from_token(token_key) ==
    IF token_key \notin DOMAIN SignedTokens THEN Anonymous
    ELSE LET user_id == SignedTokens[token_key].user_id
         IN  IF user_id = <<>> THEN Anonymous
             ELSE IF user_id \notin Users THEN Anonymous
             ELSE UserIdentity(user_id)

\* _parse_cookies(headers): the <<key, value>> pairs in the order they are put
\* into the dict
RECURSIVE cookie_pairs(_)
cookie_pairs(items) ==
    IF items = <<>> THEN <<>>
    ELSE LET item == Strip(Head(items))
         IN  (IF HasEq(item)
              THEN <<<<Strip(SplitFirst(item)[1]), Strip(SplitFirst(item)[2])>>>>
              ELSE <<>>) \o cookie_pairs(Tail(items))

RECURSIVE parse_cookies(_)
parse_cookies(headers) ==
    IF headers = <<>> THEN <<>>
    ELSE (IF Head(headers).name = "cookie"
          THEN cookie_pairs(SplitOn(Head(headers).value, ";"))
          ELSE <<>>) \o parse_cookies(Tail(headers))

\* _get_token_from_query(scope): dict(item.split('=') for item in
\* query_string.split('&') if '=' in item) raises ValueError when an item
\* splits into more than two parts
get_token_from_query(query_string) ==
    LET items == SelectSeq(SplitOn(query_string, "&"), HasEq)
        parts == [i \in 1..Len(items) |-> SplitOn(items[i], "=")]
    IN  IF \E i \in 1..Len(parts) : Len(parts[i]) # 2
        THEN [raised |-> TRUE, token |-> NoneValue]
        ELSE [raised |-> FALSE, token |-> dict_get(parts, <<"token">>)]

\* mutant: the query parameter is looked at first
authenticate_query_first(headers, query_string) ==
    LET token == dict_get(parse_cookies(headers), <<"access_token">>)
        q == get_token_from_query(query_string)
    IN  IF q.raised THEN [raised |-> TRUE, user |-> Anonymous]
        ELSE IF Truthy(q.token)
        THEN [raised |-> FALSE, user |-> get_user_from_token(q.token.value)]
        ELSE IF Truthy(token)
        THEN [raised |-> FALSE, user |-> get_user_from_token(token.value)]
        ELSE [raised |-> FALSE, user |-> Anonymous]

\* JWTAuthMiddleware.__call__ up to the call of the inner application: the
\* scope's user, or the exception that leaves __call__
authenticate(headers, query_string) ==
    LET token == dict_get(parse_cookies(headers), <<"access_token">>)
    IN  IF Truthy(token)
        THEN [raised |-> FALSE, user |-> get_user_from_token(token.value)]
        ELSE LET q == get_token_from_query(query_string)
             IN  IF q.raised THEN [raised |-> TRUE, user |-> Anonymous]
                 ELSE IF Truthy(q.token)
                 THEN [raised |-> FALSE,
                       user |-> get_user_from_token(q.token.value)]
                 ELSE [raised |-> FALSE, user |-> Anonymous]

\* a WebSocket handshake reaches the middleware
Handshake(headers, query_string) ==
    /\ LET a == authenticate(headers, query_string)
       IN  scope' = [headers |-> headers, query_string |-> query_string,
                     user |-> a.user, raised |-> a.raised]
    /\ scope' # scope
    /\ UNCHANGED <<followers, conn, groups, queue, outbox, conversations,
                   messages, rest, lastIn, nrecv, ntoggle, now, nsent, loaded,
                   reply, walk, toggling, calls>>

----------------------------------------------------------------------------
(* The system *)

NoFollows == [u \in Users |-> {}]

\* Alice and Bob follow each other; Carol follows Alice only
ChatFollowGraph ==
    [NoFollows EXCEPT ![Alice] = {Bob, Carol}, ![Bob] = {Alice}]

\* follow graphs the database holds when the server starts
InitFollowGraphs ==
    { NoFollows,
      ChatFollowGraph,
      [NoFollows EXCEPT ![Alice] = {Bob}, ![Bob] = {Alice, Carol},
                        ![Carol] = {Bob}] }

\* room names of the connection URL
RoomPaths ==
    { Join(<<Alice, Bob>>), Join(<<Bob, Alice>>), Join(<<Alice>>),
      Join(<<Alice, Bob, Carol>>), Join(<<Alice, Zed>>),
      Join(<<Alice, Alice>>), Join(<<Alice, <<>>>>), Join(<<Bob, Carol>>),
      <<"a", "-", "b">> }

ChatRoomPaths == { Join(<<Alice, Bob>>) }
ChatIdentities == { UserIdentity(u) : u \in Users }

InitWith(graphs) ==
    /\ followers \in graphs
    /\ conn = [k \in Conns |-> IdleConn]
    /\ groups = {}
    /\ queue = [k \in Conns |-> <<>>]
    /\ outbox = [k \in Conns |-> <<>>]
    /\ conversations = {}
    /\ messages = <<>>
    /\ rest = [r \in Reqs |-> IdleReq]
    /\ lastIn = [k |-> 0, toggles |-> 0,
                 frame |-> InFrame("invalid", TypeAbsent, Absent, Absent)]
    /\ nrecv = 0
    /\ ntoggle = 0
    /\ now = 1
    /\ nsent = 0
    /\ loaded = NoMessage
    /\ reply = NoReply
    /\ scope = NoScope
    /\ walk = NoWalk
    /\ toggling = [x \in Toggles |-> IdleToggle]
    /\ calls = [c \in Calls |-> IdleCall]

\* a server started on a database that already holds conversations and
\* messages, at clock reading t
InitStore(convs, msgs, t) ==
    /\ followers = ChatFollowGraph
    /\ conn = [k \in Conns |-> IdleConn]
    /\ groups = {}
    /\ queue = [k \in Conns |-> <<>>]
    /\ outbox = [k \in Conns |-> <<>>]
    /\ conversations = convs
    /\ messages = msgs
    /\ rest = [r \in Reqs |-> IdleReq]
    /\ lastIn = [k |-> 0, toggles |-> 0,
                 frame |-> InFrame("invalid", TypeAbsent, Absent, Absent)]
    /\ nrecv = 0
    /\ ntoggle = 0
    /\ now = t
    /\ nsent = 0
    /\ loaded = NoMessage
    /\ reply = NoReply
    /\ scope = NoScope
    /\ walk = NoWalk
    /\ toggling = [x \in Toggles |-> IdleToggle]
    /\ calls = [c \in Calls |-> IdleCall]

DoConnectCheck == \E k \in Conns : ConnectCheck(k)
DoConnectJoin == \E k \in Conns : ConnectJoin(k)
DoConnectAccept == \E k \in Conns : ConnectAccept(k)
DoConnectAnnounce == \E k \in Conns : ConnectAnnounce(k)
DoDisconnect == \E k \in Conns : Disconnect(k)
DoDisconnectDiscard == \E k \in Conns : DisconnectDiscard(k)
DoDispatch == \E k \in Conns : Dispatch(k)
DoReceive ==
    /\ nrecv < MaxFrames
    /\ \E k \in Conns, frame \in InFrames : Receive(k, frame)
DoToggleWrite == \E t \in Toggles : ToggleWrite(t)
DoRestGate == \E r \in Reqs : RestGate(r)
DoRestGet == \E r \in Reqs : RestGet(r)
DoRestCreate == \E r \in Reqs : RestCreate(r)
DoRestReget == \E r \in Reqs : RestReget(r)
DoRestStamp == \E r \in Reqs : RestStamp(r)
DoRestWrite == \E r \in Reqs : RestWrite(r)
DoRestSave == \E r \in Reqs : RestSave(r)
DoRestAnswer == \E r \in Reqs : RestAnswer(r)
DoMarkUpdate == \E c \in Calls : MarkUpdate(c)
DoUnreadNext == \E c \in Calls : UnreadNext(c)
DoListItem == \E c \in Calls : ListItem(c)
DoHistoryMore == \E c \in Calls : HistoryMore(c)

(* Connection handshakes: every identity on every room path, any follow
   graph, follows toggled meanwhile *)
AuthInit == InitWith(InitFollowGraphs)
AuthConnect == \E k \in Conns, ident \in Identities, room \in RoomPaths :
                   Connect(k, ident, room)
AuthToggleFollow ==
    \E me \in {Alice, Bob}, target \in {Alice, Bob} :
        ToggleFollow(1, me, target)
AuthNext ==
    \/ AuthConnect
    \/ DoConnectCheck
    \/ DoConnectJoin
    \/ DoConnectAccept
    \/ DoConnectAnnounce
    \/ DoDisconnect
    \/ DoDisconnectDiscard
    \/ DoDispatch
    \/ AuthToggleFollow
    \/ DoToggleWrite
AuthSpec == AuthInit /\ [][AuthNext]_vars

(* The gate under concurrent follow toggles: Alice and Bob connect to their
   room while each of them toggles the follow of the other; at the start
   nobody follows anybody, or Alice and Bob follow each other, or Alice
   follows Bob and Bob does not follow back *)
GateFollowGraphs ==
    { NoFollows,
      ChatFollowGraph,
      [NoFollows EXCEPT ![Bob] = {Alice}] }
GateInit == InitWith(GateFollowGraphs)
GateConnect ==
    \E k \in Conns, ident \in {UserIdentity(Alice), UserIdentity(Bob)} :
        Connect(k, ident, Join(<<Alice, Bob>>))
GateToggleFollow ==
    \E t \in Toggles, me \in {Alice, Bob} :
        \E target \in {Alice, Bob} \ {me} : ToggleFollow(t, me, target)
GateNext ==
    \/ GateConnect
    \/ DoConnectCheck
    \/ DoConnectJoin
    \/ DoConnectAccept
    \/ DoConnectAnnounce
    \/ DoDisconnect
    \/ DoDisconnectDiscard
    \/ DoDispatch
    \/ GateToggleFollow
    \/ DoToggleWrite
GateSpec == GateInit /\ [][GateNext]_vars

(* Chat sessions: the users connect to the room of Alice and Bob, whose
   conversation holds one message of Bob, and send every kind of frame *)
ChatMessages == << MessageRow(1, 1, Bob, <<"y", "o">>, 1) >>
ChatInit == InitStore({ConversationRow(1, Alice, Bob)}, ChatMessages, 2)
ChatConnect == \E k \in Conns, ident \in ChatIdentities, room \in ChatRoomPaths :
                   Connect(k, ident, room)
ChatNext ==
    \/ ChatConnect
    \/ DoConnectCheck
    \/ DoConnectJoin
    \/ DoConnectAccept
    \/ DoConnectAnnounce
    \/ DoDisconnect
    \/ DoDisconnectDiscard
    \/ DoReceive
    \/ DoDispatch
ChatSpec == ChatInit /\ [][ChatNext]_vars

\* a running consumer keeps taking the events of its channel
\* (AsyncConsumer's dispatch loop)
ChatFairSpec == ChatSpec /\ \A k \in Conns : WF_vars(Dispatch(k))

(* The store under concurrent REST requests: two requests of any users
   to any users, start-conversation or send-message, interleaved statement
   by statement, while Carol, who follows Alice at the start, and Alice
   toggle the follow of each other *)
RestTargets == Users \cup {Zed, <<>>, <<" ">> \o Bob}
RestContents == {<<" ">> \o Hi \o <<"\n">>, <<" ">>}

StoreInit == InitWith({ChatFollowGraph})
DoRestBegin ==
    \/ \E r \in Reqs, user \in Users, target \in RestTargets,
          content \in RestContents : RestBegin(r, "send", user, target, content)
    \/ \E r \in Reqs, user \in Users, target \in RestTargets :
          RestBegin(r, "start", user, target, <<>>)
StoreToggleFollow ==
    \E t \in Toggles, me \in {Alice, Carol} :
        \E target \in {Alice, Carol} \ {me} : ToggleFollow(t, me, target)
StoreNext ==
    \/ DoRestBegin
    \/ DoRestGate
    \/ DoRestGet
    \/ DoRestCreate
    \/ DoRestReget
    \/ DoRestStamp
    \/ DoRestWrite
    \/ DoRestSave
    \/ DoRestAnswer
    \/ StoreToggleFollow
    \/ DoToggleWrite
StoreSpec == StoreInit /\ [][StoreNext]_vars

(* Revocation: Alice and Bob are in their room, chat and typing frames are
   sent, and either of them follows or unfollows meanwhile *)
RevokeIdentities == {UserIdentity(Alice), UserIdentity(Bob)}
RevokeFrames ==
    { InFrame("object", TypeStr("chat_message"),
              JStr(<<" ">> \o Hi \o <<"\n">>), Absent),
      InFrame("object", TypeStr("chat_message"), JStr(<<" ">>), Absent),
      InFrame("object", TypeStr("typing_start"), Absent, Absent) }

RevokeInit == InitWith({ChatFollowGraph})
RevokeConnect ==
    \E k \in Conns, ident \in RevokeIdentities, room \in ChatRoomPaths :
        Connect(k, ident, room)
RevokeReceive ==
    /\ nrecv < MaxFrames
    /\ \E k \in Conns, frame \in RevokeFrames : Receive(k, frame)
RevokeToggleFollow ==
    \E me \in {Alice, Bob}, target \in {Alice, Bob} :
        ToggleFollow(1, me, target)
RevokeNext ==
    \/ RevokeConnect
    \/ DoConnectCheck
    \/ DoConnectJoin
    \/ DoConnectAccept
    \/ DoConnectAnnounce
    \/ DoDisconnect
    \/ DoDisconnectDiscard
    \/ RevokeReceive
    \/ DoDispatch
    \/ RevokeToggleFollow
    \/ DoToggleWrite
RevokeSpec == RevokeInit /\ [][RevokeNext]_vars

(* Read state: a store that already holds two conversations and four
   messages; mark-all-read calls one after the other, Message.mark_as_read,
   one more send, and the clock, statement by statement *)
ReadConversations ==
    {ConversationRow(1, Alice, Bob), ConversationRow(2, Alice, Carol)}
ReadMessages ==
    << [MessageRow(1, 1, Bob, Hi, 1) EXCEPT !.is_read = TRUE, !.read_at = 2],
       MessageRow(2, 1, Alice, Hi, 2),
       MessageRow(3, 1, Bob, Hi, 2),
       MessageRow(4, 2, Carol, Hi, 2) >>
ReadIds == {1, 2}
ReadLoadIds == {1, 3}

ReadInit == InitStore(ReadConversations, ReadMessages, 3)
DoMarkAllRead ==
    \E user \in Users, conversation_id \in ReadIds :
        MarkAllRead(1, user, conversation_id)
DoLoadMessage == \E id \in ReadLoadIds : LoadMessage(id)
ReadSend ==
    \E user \in {Alice, Bob}, receiver \in {Alice, Bob} :
        RestBegin(1, "send", user, receiver, Hi)
ReadNext ==
    \/ DoMarkAllRead
    \/ DoMarkUpdate
    \/ Tick
    \/ DoLoadMessage
    \/ MarkAsRead
    \/ MarkAsReadSave
    \/ ReadSend
    \/ DoRestGate
    \/ DoRestGet
    \/ DoRestStamp
    \/ DoRestWrite
    \/ DoRestSave
ReadSpec == ReadInit /\ [][ReadNext]_vars

(* Message history: conversation 1 (Alice, Bob) holds 55 messages written at
   times 1..4, conversation 2 (Alice, Carol) holds two; history calls, one
   more send and the clock *)
HistoryMessages ==
    [i \in 1..57 |->
        MessageRow(i,
                   IF i \in {10, 30} THEN 2 ELSE 1,
                   IF i \in {10, 30} THEN Carol
                   ELSE IF i % 2 = 0 THEN Alice ELSE Bob,
                   Hi,
                   IF i <= 2 THEN 1 ELSE IF i <= 5 THEN 2
                   ELSE IF i <= 55 THEN 3 ELSE 4)]
HistoryCursors ==
    { <<>>, <<"3">>, <<"4">>, <<"4", "Z">>, <<"9">>, <<"x">>, <<"Z">> }
HistoryUsers == {Alice, Carol}
TieOrders == {"asc", "desc"}

HistoryInit == InitStore(ReadConversations, HistoryMessages, 4)
DoHistory ==
    \E user \in HistoryUsers, conversation_id \in ReadIds,
       before \in HistoryCursors, tie \in TieOrders :
        History(1, user, conversation_id, before, tie, FALSE)
HistoryNext ==
    \/ DoHistory
    \/ DoHistoryMore
    \/ ReadSend
    \/ DoRestGate
    \/ DoRestGet
    \/ DoRestStamp
    \/ DoRestWrite
    \/ DoRestSave
HistorySpec == HistoryInit /\ [][HistoryNext]_vars

(* Paging through history: conversation 1 (Alice, Bob) holds 55 messages of
   which four share the time 2 and the first page ends among them;
   conversation 2 holds two messages; a client walks a conversation from the
   newest page back, and a message may be sent meanwhile *)
WalkMessages ==
    [i \in 1..57 |->
        MessageRow(i,
                   IF i \in {10, 30} THEN 2 ELSE 1,
                   IF i \in {10, 30} THEN Carol
                   ELSE IF i % 2 = 0 THEN Alice ELSE Bob,
                   Hi,
                   IF i <= 2 THEN 1 ELSE IF i <= 6 THEN 2
                   ELSE IF i <= 55 THEN 3 ELSE 4)]
WalkInit == InitStore(ReadConversations, WalkMessages, 4)
DoWalkStart ==
    \E user \in Users, conversation_id \in ReadIds, tie \in TieOrders :
        WalkStart(1, user, conversation_id, tie)
DoWalkOn == \E tie \in TieOrders : WalkOn(1, tie)
WalkNext ==
    \/ DoWalkStart
    \/ DoWalkOn
    \/ DoHistoryMore
    \/ ReadSend
    \/ DoRestGate
    \/ DoRestGet
    \/ DoRestStamp
    \/ DoRestWrite
    \/ DoRestSave
WalkSpec == WalkInit /\ [][WalkNext]_vars

(* Handshakes: cookie headers and query strings of every shape the parsers
   tell apart, then connect() with the user the middleware put in the scope *)
Cookie(value) == <<[name |-> "cookie", value |-> value]>>
HandshakeHeaders ==
    { <<>>,
      <<[name |-> "origin", value |-> <<"access_token", "=", "tokA">>]>>,
      Cookie(<<"access_token", "=", "tokA">>),
      Cookie(<<"access_token", "=", "tokExpired">>),
      Cookie(<<"access_token", "=", "bad">>),
      Cookie(<<"access_token", "=", "tokNoSub">>),
      Cookie(<<"access_token", "=", "tokZed">>),
      Cookie(<<"access_token", "=", "tokA", "=", "x">>),
      Cookie(<<"other", "=", "1", ";", " ", "access_token", "=", "tokB">>),
      Cookie(<<" ", "access_token", " ", "=", " ", "tokA", " ">>),
      Cookie(<<"access_token", "=">>),
      Cookie(<<"access_token">>),
      Cookie(<<"other", "=", "tokA">>) }
HandshakeQueries ==
    { <<>>,
      <<"token", "=", "tokA">>,
      <<"token", "=", "tokB">>,
      <<"token", "=", "tokExpired">>,
      <<"token", "=", "bad">>,
      <<"token", "=", "tokNoSub">>,
      <<"token", "=", "tokZed">>,
      <<"x", "=", "1", "&", "token", "=", "tokA">>,
      <<"token", "=", "tokA", "&", "token", "=", "bad">>,
      <<"token", "=">>,
      <<"token">>,
      <<"token", "=", "tokA", "=", "x">>,
      <<"a", "=", "b", "=", "c", "&", "token", "=", "tokA">> }

HandshakeInit == InitWith({ChatFollowGraph})
DoHandshake ==
    \E headers \in HandshakeHeaders, query_string \in HandshakeQueries :
        Handshake(headers, query_string)
HandshakeConnect ==
    /\ scope # NoScope
    /\ ~scope.raised
    /\ Connect(1, scope.user, Join(<<Alice, Bob>>))
HandshakeNext ==
    \/ DoHandshake
    \/ HandshakeConnect
    \/ DoConnectCheck
    \/ DoConnectJoin
    \/ DoConnectAccept
    \/ DoConnectAnnounce
HandshakeSpec == HandshakeInit /\ [][HandshakeNext]_vars

(* Chat over the socket next to history reads: Alice and Bob in room a_b,
   whose conversation exists and holds one earlier message *)
ThroughMessages == << MessageRow(1, 1, Bob, <<"y", "o">>, 1) >>
ThroughFrames ==
    { InFrame("object", TypeStr("chat_message"),
              JStr(<<" ">> \o Hi \o <<"\n">>), Absent) }
ThroughInit == InitStore({ConversationRow(1, Alice, Bob)}, ThroughMessages, 2)
ThroughReceive ==
    /\ nrecv < MaxFrames
    /\ \E k \in Conns, frame \in ThroughFrames : Receive(k, frame)
ThroughHistory ==
    \E user \in {Alice, Bob}, tie \in TieOrders :
        History(1, user, 1, <<>>, tie, FALSE)
ThroughNext ==
    \/ RevokeConnect
    \/ DoConnectCheck
    \/ DoConnectJoin
    \/ DoConnectAccept
    \/ DoConnectAnnounce
    \/ DoDisconnect
    \/ DoDisconnectDiscard
    \/ ThroughReceive
    \/ DoDispatch
    \/ ThroughHistory
    \/ DoHistoryMore
ThroughSpec == ThroughInit /\ [][ThroughNext]_vars

(* The REST surface on a store that holds two conversations and four
   messages: a send, mark-all-read calls, and next to them the read calls of
   Alice, who is in both conversations, and of Carol, statement by
   statement *)
InboxUsers == {Alice, Carol}
InboxMarkAllRead ==
    \E user \in InboxUsers, conversation_id \in ReadIds :
        MarkAllRead(2, user, conversation_id)
DoUnreadCount == \E user \in InboxUsers : UnreadCount(1, user)
DoConversationList == \E user \in InboxUsers : ConversationList(1, user)
DoConversationDetail ==
    \E user \in InboxUsers, conversation_id \in ReadIds :
        ConversationDetail(1, user, conversation_id)
DoDetailRecent == \E c \in Calls, tie \in TieOrders : DetailRecent(c, tie)
InboxHistory ==
    \E user \in InboxUsers, conversation_id \in ReadIds, tie \in TieOrders :
        History(1, user, conversation_id, <<>>, tie, FALSE)
InboxNext ==
    \/ InboxMarkAllRead
    \/ DoMarkUpdate
    \/ ReadSend
    \/ DoRestGate
    \/ DoRestGet
    \/ DoRestStamp
    \/ DoRestWrite
    \/ DoRestSave
    \/ DoUnreadCount
    \/ DoUnreadNext
    \/ DoConversationList
    \/ DoListItem
    \/ DoConversationDetail
    \/ DoDetailRecent
    \/ InboxHistory
    \/ DoHistoryMore
InboxSpec == ReadInit /\ [][InboxNext]_vars

(* Concurrent senders in one room: Alice and Bob connect to the room a_b,
   each sends frames (a chat message, a typing notice) while the other's
   handlers run; connections come and go meanwhile *)
OrderFrames ==
    { InFrame("object", TypeStr("chat_message"), JStr(Hi), Absent),
      InFrame("object", TypeStr("typing_start"), Absent, Absent) }

OrderInit == InitWith({ChatFollowGraph})
OrderConnect ==
    \E k \in Conns, ident \in RevokeIdentities, room \in ChatRoomPaths :
        Connect(k, ident, room)
OrderReceive ==
    /\ nrecv < MaxOrderFrames
    /\ \E k \in Conns, frame \in OrderFrames : Receive(k, frame)
OrderNext ==
    \/ OrderConnect
    \/ DoConnectCheck
    \/ DoConnectJoin
    \/ DoConnectAccept
    \/ DoConnectAnnounce
    \/ DoDisconnect
    \/ DoDisconnectDiscard
    \/ DoDispatch
    \/ OrderReceive
OrderSpec == OrderInit /\ [][OrderNext]_vars

(* Room names handed out by the REST API: the user table also holds a user
   whose name contains the separator (MyUser.username is a CharField without
   a validator); each participant connects to the room name of a stored
   conversation *)
Under == <<"a", "_", "b">>
NameUsers == Users \cup {Under}
NameFollowGraphs ==
    { [u \in NameUsers |->
          CASE u = Alice -> {Bob}
            [] u = Bob -> {Alice} \cup x
            [] u = Carol -> {Under} \cup y
            [] u = Under -> {Carol}]
      : x \in {{}, {Carol}}, y \in {{}, {Bob}} }
NameConversations ==
    {ConversationRow(1, Alice, Bob), ConversationRow(2, Under, Carol)}
NameInit ==
    /\ followers \in NameFollowGraphs
    /\ conn = [k \in Conns |-> IdleConn]
    /\ groups = {}
    /\ queue = [k \in Conns |-> <<>>]
    /\ outbox = [k \in Conns |-> <<>>]
    /\ conversations = NameConversations
    /\ messages = <<>>
    /\ rest = [r \in Reqs |-> IdleReq]
    /\ lastIn = [k |-> 0, toggles |-> 0,
                 frame |-> InFrame("invalid", TypeAbsent, Absent, Absent)]
    /\ nrecv = 0
    /\ ntoggle = 0
    /\ now = 1
    /\ nsent = 0
    /\ loaded = NoMessage
    /\ reply = NoReply
    /\ scope = NoScope
    /\ walk = NoWalk
    /\ toggling = [x \in Toggles |-> IdleToggle]
    /\ calls = [c \in Calls |-> IdleCall]
NameConnect ==
    \E k \in Conns, user \in NameUsers, c \in conversations :
        Connect(k, UserIdentity(user), get_room_name(c))
NameNext ==
    \/ NameConnect
    \/ DoConnectCheck
    \/ DoConnectJoin
    \/ DoConnectAccept
    \/ DoConnectAnnounce
    \/ DoDisconnect
    \/ DoDisconnectDiscard
    \/ DoDispatch
NameSpec == NameInit /\ [][NameNext]_vars

TypeOK ==
    /\ \A k \in Conns :
           conn[k].state \in {"idle", "checking", "checked", "joined",
                              "accepted", "noroute", "rejected", "crashed",
                              "open", "leaving", "closed"}
    /\ \A r \in Reqs :
           rest[r].pc \in {"idle", "gate", "get", "create", "reget", "stamp",
                           "insert", "save", "answer", "done"}
    /\ \A c \in Calls :
           calls[c].pc \in {"idle", "update", "count", "item", "recent", "more"}
    /\ \A t \in Toggles : toggling[t].pc \in {"idle", "write", "done"}
    /\ nrecv \in 0..MaxOrderFrames
    /\ ntoggle \in 0..MaxToggles

----------------------------------------------------------------------------
(* Vocabulary of the properties *)

\* this step is receive() on connection k; the frame is lastIn'.frame
RecvStep(k) == nrecv' = nrecv + 1 /\ lastIn'.k = k

\* in this step the checks of connect() on connection k are decided: the
\* consumer refuses, raises, or goes on to join the group
ConnStep(k) ==
    /\ conn[k].state \in {"idle", "checking"}
    /\ conn'[k].state \in {"noroute", "rejected", "crashed", "checked"}

\* in this step connect() on connection k returns with the session open
OpenStep(k) == conn[k].state = "accepted" /\ conn'[k].state = "open"

\* this step is the dispatch of the next group event on connection k
DispatchStep(k) == Len(queue'[k]) = Len(queue[k]) - 1

Joined(k) == <<room_group_name(conn[k].room), k>> \in groups

\* the connections whose consumer is running
OpenConns == {j \in Conns : conn[j].state = "open"}

\* the open connections joined to the room of connection k
RoomMates(k) ==
    {j \in Conns : conn[j].state = "open" /\ conn[j].room = conn[k].room}

\* mutual_follow(a, b) of the social graph, on the current follow graph
MutualFollow(a, b) ==
    /\ a # b
    /\ a \in Users /\ b \in Users
    /\ a \in followers[b] /\ b \in followers[a]

\* the token of a two-token room path that is not `me` (me itself if both are)
OtherToken(room, me) ==
    LET t == Split(room) IN IF t[1] = me THEN t[2] ELSE t[1]

IsToken(room, name) ==
    \E i \in 1..Len(Split(room)) : Split(room)[i] = name

\* ob2 is ob followed by exactly one error frame
OneErrorAppended(ob, ob2) ==
    /\ Len(ob2) = Len(ob) + 1
    /\ SubSeq(ob2, 1, Len(ob)) = ob
    /\ ob2[Len(ob2)].type = "error"

\* the frame is a chat_message whose content is a string
IsChatFrame(f) ==
    /\ f.json = "object"
    /\ f.type \in {TypeAbsent, TypeStr("chat_message")}

HasChatFrame(k, content, sender) ==
    \E i \in 1..Len(outbox[k]) :
        /\ outbox[k][i].type = "chat_message"
        /\ outbox[k][i].content = content
        /\ outbox[k][i].sender = sender

----------------------------------------------------------------------------
(* C1: when A sends a valid chat_message with content c, the chat_message
   event {content c, sender A} is enqueued for every open connection joined
   to the room, A's own connection included, and for no open connection of
   another room; and every
   connection that handles a chat_message event sends the client a
   chat_message frame with that content and sender, whoever the sender is;
   so a connection with the event waiting receives the frame unless it stops
   being open first. *)
C1_ChatMessageReachesWholeRoom ==
  /\ \A j \in Conns : \A c \in {Hi, Rep(2000)} : \A u \in Users :
        ( /\ conn[j].state = "open"
          /\ \E i \in 1..Len(queue[j]) :
                queue[j][i] = [Event("chat_message") EXCEPT !.content = c,
                                                            !.sender = u] )
        ~> (HasChatFrame(j, c, u) \/ conn[j].state # "open")
  /\
    [][ /\ \A k \in Conns :
             ( /\ RecvStep(k)
               /\ IsChatFrame(lastIn'.frame)
               /\ lastIn'.frame.content.kind = "str"
               /\ Strip(lastIn'.frame.content.val) # <<>>
               /\ Len(Strip(lastIn'.frame.content.val)) <= 2000 )
             => LET ev == [Event("chat_message") EXCEPT
                               !.content = Strip(lastIn'.frame.content.val),
                               !.sender = conn[k].user.username]
                IN  /\ k \in RoomMates(k)
                    /\ \A j \in OpenConns :
                          queue'[j] = IF j \in RoomMates(k)
                                      THEN Append(queue[j], ev) ELSE queue[j]
        /\ \A j \in Conns :
             (DispatchStep(j) /\ Head(queue[j]).type = "chat_message")
             => /\ Len(outbox'[j]) = Len(outbox[j]) + 1
                /\ SubSeq(outbox'[j], 1, Len(outbox[j])) = outbox[j]
                /\ outbox'[j][Len(outbox'[j])].type = "chat_message"
                /\ outbox'[j][Len(outbox'[j])].content = Head(queue[j]).content
                /\ outbox'[j][Len(outbox'[j])].sender = Head(queue[j]).sender
      ]_vars

\* Alice and Bob, mutual followers, are both joined to one room and both
\* have received Alice's "hi"
C1_Witness ==
    /\ conn[1].state = "open" /\ conn[2].state = "open"
    /\ conn[1].room = conn[2].room
    /\ conn[1].user.username = Alice /\ conn[2].user.username = Bob
    /\ MutualFollow(Alice, Bob)
    /\ lastIn.k = 1
    /\ HasChatFrame(1, Hi, Alice)
    /\ HasChatFrame(2, Hi, Alice)

----------------------------------------------------------------------------
(* C2: every chat_message frame delivered over the WebSocket carries the
   identifier (never null) of a persisted Message with that content and
   sender in the Conversation of the room's participant pair. *)
C2_ChatMessageWrittenThrough ==
    \A k \in Conns : \A i \in 1..Len(outbox[k]) :
        outbox[k][i].type = "chat_message"
        => /\ outbox[k][i].message_id # NoId
           /\ \E n \in 1..Len(messages) :
                 /\ messages[n].id = outbox[k][i].message_id
                 /\ messages[n].content = outbox[k][i].content
                 /\ messages[n].sender = outbox[k][i].sender
                 /\ \E c \in conversations :
                       /\ c.id = messages[n].conversation
                       /\ <<c.participant_1, c.participant_2>> =
                              canonical_pair(Split(conn[k].room)[1],
                                             Split(conn[k].room)[2])

----------------------------------------------------------------------------
(* C3: an authenticated identity A that is one of the two tokens of the room
   path, while mutual_follow(A, B) is false for the other token B at connect
   time (B may not exist), is closed with the forbidden code 4003, is not
   accepted and is not added to the room's group; and a connection closed
   with a code is never accepted or joined afterwards.  Connect time is the
   time connect() takes to check the pair: mutual_follow(A, B) is false at
   connect time when A and B are mutual followers at no moment from the
   first follow query of the check to its second. *)
C3_NotMutualIsForbidden ==
    [][ \A k \in Conns :
          /\ ( /\ ConnStep(k)
               /\ RouteMatches(conn'[k].room)
               /\ conn'[k].user.auth
               /\ Len(Split(conn'[k].room)) = 2
               /\ IsToken(conn'[k].room, conn'[k].user.username)
               /\ ~conn'[k].mutual )
             => /\ conn'[k].state = "rejected"
                /\ conn'[k].close_code = 4003
                /\ ~conn'[k].accepted
                /\ groups' = groups
                /\ queue' = queue
          /\ conn[k].close_code # NoCode
             => /\ ~conn'[k].accepted
                /\ conn'[k].close_code = conn[k].close_code
                /\ \A g \in {m[1] : m \in groups'} : <<g, k>> \notin groups'
      ]_vars

----------------------------------------------------------------------------
(* C4: an authenticated identity that is none of the tokens of the room path
   is closed with the not-a-participant code (4003, the code the consumer
   uses for it), is not accepted and joins no group, whatever the follow
   graph is. *)
C4_NonParticipantRejected ==
    [][ \A k \in Conns :
          /\ ( /\ ConnStep(k)
               /\ RouteMatches(conn'[k].room)
               /\ conn'[k].user.auth
               /\ ~IsToken(conn'[k].room, conn'[k].user.username) )
             => /\ conn[k].state = "idle"
                /\ conn'[k].state = "rejected"
                /\ conn'[k].close_code = ClosePermissionDenied
                /\ ~conn'[k].accepted
                /\ groups' = groups
                /\ queue' = queue
          /\ ( /\ conn[k].state = "rejected"
               /\ ~IsToken(conn[k].room, conn[k].user.username) )
             => /\ ~conn'[k].accepted
                /\ ~Joined(k)'
      ]_vars

\* Carol, who follows Bob and is followed back, was refused on the room of
\* Alice and Bob while Bob is joined to it
C4_Witness ==
    \E k, j \in Conns :
        /\ conn[k].state = "rejected"
        /\ conn[k].close_code = ClosePermissionDenied
        /\ conn[k].user.username = Carol
        /\ conn[k].room = Join(<<Alice, Bob>>)
        /\ MutualFollow(Carol, Bob)
        /\ conn[j].state = "open"
        /\ conn[j].user.username = Bob
        /\ conn[j].room = Join(<<Alice, Bob>>)

----------------------------------------------------------------------------
(* C5: an anonymous identity is closed with the unauthenticated code 4001 on
   every room name, before the participant and mutual-follow checks (also
   where those would raise or refuse with the other code, and before any
   follow query); it is not accepted and joins no group; and 4001 differs
   from the not-a-participant / forbidden code. *)
C5_AnonymousIsUnauthenticated ==
    [][ \A k \in Conns :
          /\ ( /\ conn[k].state = "idle" /\ conn'[k].state # "idle"
               /\ RouteMatches(conn'[k].room)
               /\ ~conn'[k].user.auth )
             => /\ conn'[k].state = "rejected"
                /\ conn'[k].close_code = 4001
                /\ conn'[k].close_code # ClosePermissionDenied
                /\ ~conn'[k].accepted
                /\ groups' = groups
                /\ queue' = queue
          /\ (conn[k].state # "idle" /\ ~conn[k].user.auth)
             => /\ ~conn'[k].accepted
                /\ ~Joined(k)'
      ]_vars

\* an anonymous handshake was refused with 4001 on the room name 'a_', whose
\* second token is the empty username of the anonymous identity, and one on
\* the one-token room name
C5_Witness ==
    \E k, j \in Conns :
        /\ conn[k].state = "rejected" /\ conn[k].close_code = 4001
        /\ conn[k].user = Anonymous
        /\ conn[k].room = Join(<<Alice, <<>>>>)
        /\ conn[j].state = "closed" /\ conn[j].close_code = 4001
        /\ conn[j].user = Anonymous
        /\ conn[j].room = Join(<<Alice>>)

----------------------------------------------------------------------------
(* C6: a connection is accepted only on a room name of exactly two tokens one
   of which is the connecting identity; on a room name of one token or of
   three or more tokens every authenticated handshake ends refused with the
   not-a-participant code and without a join: never accepted, never an
   exception out of connect(). *)
C6_OnlyTwoTokenRoomsAuthorized ==
    [][ \A k \in Conns :
          /\ conn'[k].accepted
             => /\ Len(Split(conn'[k].room)) = 2
                /\ IsToken(conn'[k].room, conn'[k].user.username)
          /\ ( /\ ConnStep(k) /\ RouteMatches(conn'[k].room)
               /\ conn'[k].user.auth /\ Len(Split(conn'[k].room)) # 2 )
             => /\ conn'[k].state = "rejected"
                /\ conn'[k].close_code = ClosePermissionDenied
                /\ groups' = groups
      ]_vars

----------------------------------------------------------------------------
(* C7: a chat_message whose trimmed content has exactly 2000 characters is
   broadcast to the room (no error frame); one of 2001 or more characters
   gives the sender exactly one error frame, no other connection anything,
   no group event, and no Message. *)
C7_LengthLimit ==
    [][ \A k \in Conns :
          ( /\ RecvStep(k)
            /\ IsChatFrame(lastIn'.frame)
            /\ lastIn'.frame.content.kind = "str" )
          => LET content == Strip(lastIn'.frame.content.val)
                 ev == [Event("chat_message") EXCEPT
                            !.content = content,
                            !.sender = conn[k].user.username]
             IN  /\ Len(content) = 2000
                    => /\ k \in RoomMates(k)
                       /\ \A j \in OpenConns :
                             queue'[j] = IF j \in RoomMates(k)
                                         THEN Append(queue[j], ev) ELSE queue[j]
                       /\ outbox' = outbox
                 /\ Len(content) >= 2001
                    => /\ OneErrorAppended(outbox[k], outbox'[k])
                       /\ \A j \in Conns \ {k} : outbox'[j] = outbox[j]
                       /\ queue' = queue
                       /\ messages' = messages
                       /\ conversations' = conversations
      ]_vars

\* Alice sent 2001 characters with Bob joined: Alice holds the error frame,
\* Bob has nothing waiting and was sent nothing after Alice's join notice
C7_Witness ==
    /\ conn[1].state = "open" /\ conn[1].user.username = Alice
    /\ conn[2].state = "open" /\ conn[2].user.username = Bob
    /\ conn[1].room = conn[2].room
    /\ lastIn.k = 1
    /\ IsChatFrame(lastIn.frame)
    /\ lastIn.frame.content.kind = "str"
    /\ Len(Strip(lastIn.frame.content.val)) = 2001
    /\ Len(outbox[1]) > 0
    /\ outbox[1][Len(outbox[1])].type = "error"
    /\ queue[2] = <<>>
    /\ \A i \in 1..Len(outbox[2]) : outbox[2][i].type = "user_joined"
    /\ messages = ChatMessages

----------------------------------------------------------------------------
(* C8: a chat_message whose content is empty, whitespace only or absent
   gives the sender exactly one error frame; no other connection is sent
   anything, no group event is emitted, no Message is persisted, and the
   sender stays open and joined to the room. *)
C8_EmptyContentRejected ==
    [][ \A k \in Conns :
          ( /\ RecvStep(k)
            /\ IsChatFrame(lastIn'.frame)
            /\ \/ lastIn'.frame.content.kind = "absent"
               \/ /\ lastIn'.frame.content.kind = "str"
                  /\ \A i \in 1..Len(lastIn'.frame.content.val) :
                        lastIn'.frame.content.val[i] \in Spaces )
          => /\ OneErrorAppended(outbox[k], outbox'[k])
             /\ \A j \in Conns \ {k} : outbox'[j] = outbox[j]
             /\ queue' = queue
             /\ messages' = messages
             /\ conversations' = conversations
             /\ conn'[k].state = "open"
             /\ groups' = groups
             /\ Joined(k)
      ]_vars

\* Alice sent whitespace only with Bob joined: she holds the error frame and
\* is still joined, Bob was sent nothing
C8_Witness ==
    /\ conn[1].state = "open" /\ conn[1].user.username = Alice
    /\ conn[2].state = "open" /\ conn[2].user.username = Bob
    /\ conn[1].room = conn[2].room
    /\ Joined(1)
    /\ lastIn.k = 1
    /\ lastIn.frame.type = TypeStr("chat_message")
    /\ lastIn.frame.content = JStr(<<" ", "\t", "\n">>)
    /\ Len(outbox[1]) > 0
    /\ outbox[1][Len(outbox[1])].type = "error"
    /\ queue[2] = <<>>
    /\ \A i \in 1..Len(outbox[2]) : outbox[2][i].type = "user_joined"
    /\ messages = ChatMessages

----------------------------------------------------------------------------
(* C9: typing_start (typing_stop) of A enqueues the typing event
   {username A, is_typing true (false)} for every connection joined to the
   room and writes nothing to the store; a connection of another user that
   handles the event sends {type typing, username A, is_typing}; a connection
   of A sends nothing for it, so no connection ever holds a typing frame
   about its own user, and a connection of another user with the event
   waiting receives the frame unless it stops being open first. *)
NoOwnTypingEcho ==
    \A k \in Conns : \A i \in 1..Len(outbox[k]) :
        outbox[k][i].type = "typing"
        => outbox[k][i].username # conn[k].user.username

C9_TypingToOthersOnly ==
  /\ \A j \in Conns : \A b \in BOOLEAN : \A u \in Users :
        ( /\ conn[j].state = "open"
          /\ conn[j].user.username # u
          /\ \E i \in 1..Len(queue[j]) :
                queue[j][i] = [Event("typing_indicator") EXCEPT
                                   !.username = u, !.is_typing = b] )
        ~> \/ conn[j].state # "open"
           \/ \E i \in 1..Len(outbox[j]) :
                 outbox[j][i] = [Frame("typing") EXCEPT !.username = u,
                                                        !.is_typing = b]
  /\
    [][ /\ \A k \in Conns :
             ( /\ RecvStep(k)
               /\ lastIn'.frame.json = "object"
               /\ lastIn'.frame.type \in
                      {TypeStr("typing_start"), TypeStr("typing_stop")} )
             => LET ev == [Event("typing_indicator") EXCEPT
                               !.username = conn[k].user.username,
                               !.is_typing =
                                   (lastIn'.frame.type = TypeStr("typing_start"))]
                IN  /\ \A j \in OpenConns :
                          queue'[j] = IF j \in RoomMates(k)
                                      THEN Append(queue[j], ev) ELSE queue[j]
                    /\ outbox' = outbox
                    /\ messages' = messages
                    /\ conversations' = conversations
        /\ \A j \in Conns :
             (DispatchStep(j) /\ Head(queue[j]).type = "typing_indicator")
             => outbox'[j] =
                  IF Head(queue[j]).username # conn[j].user.username
                  THEN Append(outbox[j],
                              [Frame("typing") EXCEPT
                                   !.username = Head(queue[j]).username,
                                   !.is_typing = Head(queue[j]).is_typing])
                  ELSE outbox[j]
        /\ NoOwnTypingEcho'
      ]_vars

\* Alice sent typing_start; Bob holds the typing frame about Alice; Alice has
\* handled every event of her channel and holds no typing frame
C9_Witness ==
    /\ conn[1].state = "open" /\ conn[1].user.username = Alice
    /\ conn[2].state = "open" /\ conn[2].user.username = Bob
    /\ conn[1].room = conn[2].room
    /\ lastIn.k = 1
    /\ lastIn.frame.type = TypeStr("typing_start")
    /\ queue[1] = <<>>
    /\ \A i \in 1..Len(outbox[1]) : outbox[1][i].type # "typing"
    /\ \E i \in 1..Len(outbox[2]) :
          outbox[2][i] = [Frame("typing") EXCEPT !.username = Alice,
                                                 !.is_typing = TRUE]
    /\ messages = ChatMessages

----------------------------------------------------------------------------
(* C10: a frame that is not parseable JSON, or an object whose type is given
   and is none of chat_message, typing_start, typing_stop, mark_read, gives
   the sender exactly one error frame; no other connection is sent anything,
   no group event is emitted, nothing is persisted, and the connection stays
   open and joined.  Text whose brackets nest deeper than the parser can
   follow ('[' repeated 100000 times) is not parseable JSON either. *)
C10_BadFrameErrorToSenderOnly ==
    [][ \A k \in Conns :
          ( /\ RecvStep(k)
            /\ \/ lastIn'.frame.json \in {"invalid", "deep"}
               \/ /\ lastIn'.frame.json = "object"
                  /\ lastIn'.frame.type.kind # "absent"
                  /\ lastIn'.frame.type \notin {TypeStr(t) : t \in KnownTypes} )
          => /\ OneErrorAppended(outbox[k], outbox'[k])
             /\ \A j \in Conns \ {k} : outbox'[j] = outbox[j]
             /\ queue' = queue
             /\ messages' = messages
             /\ conversations' = conversations
             /\ conn' = conn
             /\ conn[k].state = "open"
             /\ groups' = groups
             /\ Joined(k)
      ]_vars

----------------------------------------------------------------------------
(* C11: no inbound frame closes or crashes an authorized session: whatever
   frame receive() handles on an open connection (JSON that is not an
   object, a content that is null or a number included), the connection
   stays open and joined to its group, and a frame that is not broadcast is
   answered with one error frame to the sender. *)
C11_NoFrameEndsTheSession ==
    [][ \A k \in Conns :
          RecvStep(k)
          => /\ conn'[k].state = "open"
             /\ <<room_group_name(conn'[k].room), k>> \in groups'
             /\ \/ OneErrorAppended(outbox[k], outbox'[k])
                \/ \E j \in Conns : queue'[j] # queue[j]
      ]_vars

----------------------------------------------------------------------------
(* C12: a connection attempt the authorizer rejects (anonymous, not a
   participant, not mutual follow) has no effect on any other connection:
   neither the rejected connect() nor the disconnect() that follows it
   enqueues an event for, or sends a frame to, any connection. *)
C12_RejectedAttemptIsSilent ==
    [][ \A k \in Conns :
          ( \/ ConnStep(k) /\ conn'[k].state = "rejected"
            \/ conn[k].state = "rejected" /\ conn'[k].state # "rejected" )
          => /\ queue' = queue
             /\ outbox' = outbox
             /\ groups' = groups
      ]_vars

----------------------------------------------------------------------------
(* C13: when connect() accepts a connection of user U, user_joined{U} is
   enqueued for every open connection of the room; when an open connection
   of U stops being open, for whatever reason, it is removed from its group
   and user_left{U} is enqueued for every other open connection of the
   room; and a connection that handles a user_joined or user_left event
   sends the frame to its client unless the event names its own user. *)
JoinLeaveFrames(username, ev) ==
    IF ev.username # username
    THEN <<[Frame(ev.type) EXCEPT !.username = ev.username]>>
    ELSE <<>>

C13_JoinAndLeaveNotices ==
    [][ \A k \in Conns :
          /\ OpenStep(k)
             => \A j \in Conns :
                   (conn'[j].state = "open" /\ conn'[j].room = conn'[k].room)
                   => queue'[j] =
                          Append(queue[j],
                                 [Event("user_joined") EXCEPT
                                      !.username = conn'[k].user.username])
          /\ (conn[k].state = "open" /\ conn'[k].state # "open")
             => /\ conn'[k].state = "leaving"
                /\ \A j \in Conns \ {k} :
                      (conn[j].state = "open" /\ conn[j].room = conn[k].room)
                      => queue'[j] =
                             Append(queue[j],
                                    [Event("user_left") EXCEPT
                                         !.username = conn[k].user.username])
          /\ (conn[k].state = "leaving" /\ conn'[k].state # "leaving")
             => /\ conn'[k].state = "closed"
                /\ <<room_group_name(conn[k].room), k>> \notin groups'
          /\ ( /\ DispatchStep(k)
               /\ Head(queue[k]).type \in {"user_joined", "user_left"} )
             => outbox'[k] =
                    outbox[k] \o JoinLeaveFrames(conn[k].user.username,
                                                 Head(queue[k]))
      ]_vars

----------------------------------------------------------------------------
(* C14: two open (authorized) connections of the two users of one pair
   {A, B}, each on a two-token room path naming exactly A and B in either
   order, are members of one common broadcast group, so that what one sends
   reaches the other. *)
TokenSet(room) == {Split(room)[i] : i \in 1..Len(Split(room))}

C14_OnePairOneGroup ==
    \A j \in Conns : \A k \in Conns :
        ( /\ conn[j].state = "open" /\ conn[k].state = "open"
          /\ conn[j].user.username # conn[k].user.username
          /\ Len(Split(conn[j].room)) = 2 /\ Len(Split(conn[k].room)) = 2
          /\ TokenSet(conn[j].room)
                 = {conn[j].user.username, conn[k].user.username}
          /\ TokenSet(conn[k].room) = TokenSet(conn[j].room) )
        => \E g \in {m[1] : m \in groups} :
               <<g, j>> \in groups /\ <<g, k>> \in groups

----------------------------------------------------------------------------
(* Vocabulary of the store properties *)

\* get_or_create_between has returned a row to request r
Got(r) == rest[r].conversation # NoId

\* the two users of request r
PairOf(r) == {rest[r].user, rest[r].target}

\* the Conversation rows between the users of the set pair
RowsOfPair(pair) ==
    {c \in conversations : {c.participant_1, c.participant_2} = pair}

\* smaller username, separator, larger username
SortedRoomName(a, b) ==
    IF StrLess(a, b) THEN a \o <<"_">> \o b ELSE b \o <<"_">> \o a

----------------------------------------------------------------------------
(* C15: get_or_create_between(A, B) and get_or_create_between(B, A), for
   distinct users A and B, return the same Conversation, at most one of the
   calls creates it, and its room name is the smaller username, '_', the
   larger username, whichever order the arguments had. *)
C15_SwappedArgumentsSameConversation ==
    \A r1 \in Reqs : \A r2 \in Reqs \ {r1} :
        ( /\ Got(r1) /\ Got(r2)
          /\ rest[r1].user = rest[r2].target
          /\ rest[r1].target = rest[r2].user )
        => /\ rest[r1].user # rest[r1].target
           /\ rest[r1].conversation = rest[r2].conversation
           /\ ~(rest[r1].created /\ rest[r2].created)
           /\ \E c \in conversations :
                 /\ c.id = rest[r1].conversation
                 /\ get_room_name(c) =
                        SortedRoomName(rest[r1].user, rest[r1].target)
                 /\ get_room_name(c) =
                        SortedRoomName(rest[r2].user, rest[r2].target)

\* Bob's call (Bob, Alice) created the Conversation a_b and Alice's call
\* (Alice, Bob) got the same row without creating anything
C15_Witness ==
    /\ rest[1].pc = "done" /\ rest[2].pc = "done"
    /\ rest[1].user = Bob /\ rest[1].target = Alice
    /\ rest[2].user = Alice /\ rest[2].target = Bob
    /\ rest[1].created /\ ~rest[2].created /\ ~rest[2].retried
    /\ Got(1) /\ rest[1].conversation = rest[2].conversation
    /\ \E c \in conversations :
          c.id = rest[1].conversation
          /\ get_room_name(c) = <<"a", "_", "b">>

----------------------------------------------------------------------------
(* C16: whatever start-conversation and send-message requests have run, at
   most one Conversation exists per unordered pair of users, and every
   Conversation has participant_1.username < participant_2.username. *)
C16_OneConversationPerPair ==
    /\ \A c1 \in conversations : \A c2 \in conversations :
          {c1.participant_1, c1.participant_2}
              = {c2.participant_1, c2.participant_2}
          => c1 = c2
    /\ \A c \in conversations :
          /\ StrLess(c.participant_1, c.participant_2)
          /\ c.participant_1 # c.participant_2

\* a start-conversation and a send-message request of the two sides of one
\* pair have both gone through the store, which holds the pair's one row
C16_Witness ==
    /\ rest[1].pc = "done" /\ rest[2].pc = "done"
    /\ rest[1].kind = "start" /\ rest[2].kind = "send"
    /\ rest[1].user = rest[2].target /\ rest[1].target = rest[2].user
    /\ rest[1].status = 201 /\ rest[2].status = 201
    /\ Cardinality(RowsOfPair(PairOf(1))) = 1
    /\ Len(messages) = 1

----------------------------------------------------------------------------
(* C17: under every interleaving of get_or_create_between calls for one
   pair, a caller that was handed a row was handed the one row of the pair
   (there is exactly one), and no caller fails: a caller that loses the race
   to create the row gets the winner's row instead of an error. *)
C17_ConcurrentCreatorsConverge ==
    \A r \in Reqs :
        /\ rest[r].status # 500
        /\ Got(r)
           => /\ Cardinality(RowsOfPair(PairOf(r))) = 1
              /\ \A c \in RowsOfPair(PairOf(r)) : c.id = rest[r].conversation
        /\ rest[r].pc = "reget" => RowsOfPair(PairOf(r)) # {}

\* both requests missed the row, the first created it, the second lost the
\* race on the uniqueness constraint, retried, and both ended with that row
C17_Witness ==
    /\ rest[1].pc = "done" /\ rest[2].pc = "done"
    /\ rest[1].created /\ rest[2].retried /\ ~rest[2].created
    /\ rest[1].conversation = rest[2].conversation
    /\ rest[1].user = Alice /\ rest[2].user = Bob
    /\ rest[1].status = 201 /\ rest[2].status = 201
    /\ Cardinality(conversations) = 1

----------------------------------------------------------------------------
(* C18: authorization is evaluated at connect time only: a follow toggle
   closes no connection and changes no group, queue or frame; and a valid
   chat_message received on an open connection whose user and the room's
   other user are no longer mutual followers leaves the connection open and
   joined and is enqueued for every open connection of the room. *)
C18_UnfollowKeepsTheSession ==
    [][ /\ (followers' # followers \/ toggling' # toggling)
           => /\ \A k \in Conns :
                    /\ conn'[k].state = conn[k].state
                    /\ conn'[k].close_code = conn[k].close_code
                    /\ conn'[k].accepted = conn[k].accepted
                    /\ conn'[k].user = conn[k].user
                    /\ conn'[k].room = conn[k].room
              /\ groups' = groups
              /\ queue' = queue /\ outbox' = outbox
        /\ \A k \in Conns :
             ( /\ RecvStep(k)
               /\ IsChatFrame(lastIn'.frame)
               /\ lastIn'.frame.content.kind = "str"
               /\ Strip(lastIn'.frame.content.val) # <<>>
               /\ Len(Strip(lastIn'.frame.content.val)) <= 2000
               /\ ~MutualFollow(conn[k].user.username,
                                OtherToken(conn[k].room,
                                           conn[k].user.username)) )
             => /\ conn'[k].state = "open"
                /\ conn'[k].close_code = NoCode
                /\ <<room_group_name(conn[k].room), k>> \in groups'
                /\ \A j \in RoomMates(k) :
                      queue'[j] =
                          Append(queue[j],
                                 [Event("chat_message") EXCEPT
                                      !.content = Strip(lastIn'.frame.content.val),
                                      !.sender = conn[k].user.username])
      ]_vars

\* Alice and Bob joined as mutual followers; after Alice unfollowed Bob she
\* sent "hi" on her connection, which is still open, and Bob received it
C18_Witness ==
    /\ conn[1].state = "open" /\ conn[2].state = "open"
    /\ conn[1].user.username = Alice /\ conn[2].user.username = Bob
    /\ followers[Bob] = {} /\ Bob \in followers[Alice]
    /\ ~MutualFollow(Alice, Bob)
    /\ ntoggle = 1 /\ nrecv = 1
    /\ lastIn.k = 1 /\ lastIn.toggles = 1
    /\ HasChatFrame(2, Hi, Alice)
    /\ Joined(1) /\ Joined(2)

----------------------------------------------------------------------------
\* check_mutual_follow(a, b) and can_message_user(a, b) with both follow
\* queries answered on the graph fol
CheckOn(fol, a, b) ==
    check_mutual_follow(a, b, follows(fol, a, b), follows(fol, b, a))
CanMessageOn(fol, a, b) ==
    can_message_user(a, b, follows(fol, a, b), follows(fol, b, a))

GateAgrees(fol) ==
    \A a \in Users : \A b \in Users :
        /\ CheckOn(fol, a, b) = (a # b /\ a \in fol[b] /\ b \in fol[a])
        /\ CheckOn(fol, a, b) = CheckOn(fol, b, a)
        /\ CanMessageOn(fol, a, b) =
               IF a = b THEN <<FALSE, "Cannot message yourself">>
               ELSE IF a \in fol[b] /\ b \in fol[a] THEN <<TRUE, "None">>
               ELSE <<FALSE, "You can only message users who follow you back">>

(* C19: check_mutual_follow(a, b) is false for a = b and otherwise true
   exactly when a follows b and b follows a in the follow graph as it is when
   the call is made: on every follow graph the toggles produce the predicate
   agrees with the graph and is symmetric, and a pair one of whose follows
   was just removed is not mutual in the new graph; a call made by connect()
   or by a REST view returns true only if the pair was mutual at a moment of
   the call and false only if it was not mutual at a moment of the call; and
   can_message_user gives (false, self reason) for one and the same user,
   (false, not-mutual reason) when the predicate is false, (true, no reason)
   otherwise. *)
C19_MutualFollowPredicate ==
    [][ /\ GateAgrees(followers)
        /\ GateAgrees(followers')
        /\ \A a \in Users : \A b \in Users \ {a} :
              (a \in followers[b] /\ a \notin followers'[b])
              => /\ ~CheckOn(followers', a, b)
                 /\ ~CheckOn(followers', b, a)
                 /\ ~CanMessageOn(followers', b, a)[1]
        /\ \A k \in Conns :
              (conn[k].state = "checking" /\ conn'[k].state # "checking")
              => IF conn'[k].state = "checked" THEN conn'[k].mutual
                 ELSE conn'[k].apart
        /\ \A r \in Reqs :
              (rest[r].pc = "gate" /\ rest'[r].pc # "gate")
              => IF rest'[r].pc = "get" THEN rest'[r].mutual
                 ELSE rest'[r].apart
      ]_vars

----------------------------------------------------------------------------
(* C20: a send-message request whose (trimmed) receiver is the caller, does
   not exist, or is not a mutual follower of the caller when the gate is
   checked, is answered 400, 403 or 404 and ends there: the store is only
   ever changed by a request that passed the gate.  A send that succeeds
   (201) adds exactly one Message: unread, sent by the caller, holding the
   trimmed content, in the one Conversation of the pair; nothing else
   changes.  The receiver is not a mutual follower when the gate is checked
   if the two are mutual followers at no moment from the first follow query
   of the gate to its second. *)
GateStep(r) ==
    /\ rest[r].pc \in {"idle", "gate"}
    /\ rest'[r].pc \notin {"idle", "gate"}

C20_SendGateBeforeWrite ==
    [][ /\ \A r \in Reqs :
             /\ ( /\ GateStep(r)
                  /\ rest'[r].kind = "send"
                  /\ LET caller == rest'[r].user
                         receiver == Strip(rest'[r].data.username)
                     IN  \/ receiver = caller
                         \/ receiver \notin Users
                         \/ ~rest'[r].mutual )
                => /\ rest'[r].pc = "done"
                   /\ rest'[r].status \in {400, 403, 404}
                   /\ conversations' = conversations
                   /\ messages' = messages
             /\ rest[r].pc = "done" => rest'[r] = rest[r]
             /\ ( /\ rest[r].kind = "send"
                  /\ rest[r].pc = "insert" /\ rest'[r].pc # "insert" )
                => /\ rest'[r].pc = "save"
                   /\ conversations' = conversations
                   /\ Cardinality(RowsOfPair(PairOf(r))) = 1
                   /\ Len(messages') = Len(messages) + 1
                   /\ SubSeq(messages', 1, Len(messages)) = messages
                   /\ LET m == messages'[Len(messages')] IN
                      /\ m.sender = rest[r].user
                      /\ m.content = Strip(rest[r].data.content)
                      /\ m.content # <<>>
                      /\ ~m.is_read
                      /\ \A c \in RowsOfPair(PairOf(r)) : m.conversation = c.id
                      /\ \A n \in 1..Len(messages) : messages[n].id # m.id
             /\ ( /\ rest[r].kind = "send"
                  /\ rest[r].pc = "save" /\ rest'[r].pc # "save" )
                => /\ rest'[r].pc = "done"
                   /\ rest'[r].status = 201
                   /\ conversations' = conversations
                   /\ messages' = messages
             /\ (rest'[r].kind = "send" /\ rest'[r].status = 201)
                => rest[r].pc \in {"save", "done"}
        /\ (conversations' # conversations \/ messages' # messages)
           => \E r \in Reqs :
                 /\ rest[r].pc \in {"create", "insert"}
                 /\ rest'[r] # rest[r]
                 /\ rest[r].status = NoStatus
      ]_vars

----------------------------------------------------------------------------
(* Vocabulary of the read-state properties *)

\* in this step the mark-all-read call of user u on conversation c runs its
\* statement on the messages, or finds no conversation, and answers
MarkStep(u, c) ==
    /\ reply' # reply
    /\ reply'.op = "mark_read"
    /\ reply'.user = u
    /\ reply'.conversation = c

\* user u participates in the conversation with id c
Participates(u, c) ==
    \E row \in conversations :
        row.id = c /\ u \in {row.participant_1, row.participant_2}

\* the messages of conversation c that reader u has not read: unread and not
\* sent by u
UnreadFor(u, c) ==
    {i \in DOMAIN messages : /\ messages[i].conversation = c
                             /\ messages[i].is_read = FALSE
                             /\ messages[i].sender # u}

\* C21: a mark-all-read call of reader R on a conversation C in which R
\* participates sets is_read and read_at on exactly the messages of C that were
\* unread and not sent by R, answers with their number, and leaves every other
\* message (R's own, those already read, those of other conversations) as it was.
C21_MarkAllReadExactRows ==
    [][ \A u \in Users, c \in ReadIds :
          (MarkStep(u, c) /\ Participates(u, c))
          => /\ reply'.status = 200
             /\ reply'.marked_read = Cardinality(UnreadFor(u, c))
             /\ DOMAIN messages' = DOMAIN messages
             /\ \A i \in DOMAIN messages :
                   IF i \in UnreadFor(u, c)
                   THEN /\ messages'[i].is_read
                        /\ messages'[i].read_at # NoTime
                        /\ messages'[i].read_at <= now
                        /\ \E x \in Calls :
                              /\ calls[x].pc = "update"
                              /\ calls'[x].pc = "idle"
                              /\ messages'[i].read_at = calls[x].stamp
                        /\ [messages'[i] EXCEPT !.is_read = FALSE,
                                                !.read_at = NoTime] = messages[i]
                   ELSE messages'[i] = messages[i]
      ]_vars

\* Alice marked conversation 1 read at time 3 and was told 2: Bob's messages 3
\* and 5 were stamped, Bob's message 1 kept its earlier read_at, her own
\* message 2 and Carol's message 4 in conversation 2 stayed unread
C21_Witness ==
    /\ reply.op = "mark_read" /\ reply.user = Alice /\ reply.conversation = 1
    /\ reply.status = 200 /\ reply.marked_read = 2
    /\ Len(messages) = 5
    /\ messages[5].sender = Bob /\ messages[5].is_read /\ messages[5].read_at = 3
    /\ messages[3].is_read /\ messages[3].read_at = 3
    /\ messages[1].is_read /\ messages[1].read_at = 2
    /\ ~messages[2].is_read /\ messages[2].read_at = NoTime
    /\ ~messages[4].is_read /\ messages[4].read_at = NoTime

\* C22: mark-all-read is idempotent: a second call by the same reader on the
\* same conversation, with no message sent in between, reports zero and changes
\* no message.
C22_MarkAllReadIdempotent ==
    [][ \A u \in Users, c \in ReadIds :
          ( /\ MarkStep(u, c)
            /\ reply.op = "mark_read" /\ reply.status = 200
            /\ reply.user = u /\ reply.conversation = c
            /\ reply.nsent = nsent )
          => /\ reply'.status = 200
             /\ reply'.marked_read = 0
             /\ messages' = messages
      ]_vars

\* Alice's second call on conversation 1 came a tick after her first and
\* reported zero; message 3 still carries the first call's stamp
C22_Witness ==
    /\ reply.op = "mark_read" /\ reply.user = Alice /\ reply.conversation = 1
    /\ reply.status = 200 /\ reply.marked_read = 0 /\ reply.seq = 1
    /\ nsent = 0 /\ loaded = NoMessage
    /\ now = 4
    /\ messages[3].is_read /\ messages[3].read_at = 3
    /\ ~messages[4].is_read

\* C23: read_at is set exactly on the read messages, and a message that is
\* read stays read with the read_at it has, whichever operation runs (send,
\* mark-all-read by either participant, Message.mark_as_read).
C23_ReadStateMonotonic ==
    [][ /\ \A i \in DOMAIN messages :
              messages[i].is_read <=> messages[i].read_at # NoTime
        /\ \A i \in DOMAIN messages :
              messages[i].is_read
              => /\ i \in DOMAIN messages'
                 /\ messages'[i].is_read
                 /\ messages'[i].read_at = messages[i].read_at
      ]_vars

----------------------------------------------------------------------------
(* Vocabulary of the history, handshake and ordering properties *)

\* in this step a history call answers
HistoryStep == reply' # reply /\ reply'.op = "history"

\* in this step history call x runs the query of its page and finds messages
PageRead(x) ==
    /\ calls[x].pc = "idle"
    /\ calls'[x].pc = "more"

\* in this step a history call is answered without a page of messages: the
\* conversation is not the caller's, or the query of the page finds nothing
EmptyAnswer == HistoryStep /\ calls' = calls

\* the cursors that are timestamps, and the instant each denotes
CursorTimes ==
    [c \in {<<"3">>, <<"4">>, <<"4", "Z">>, <<"9">>} |-> DigitVal(c[1])]

\* the messages of conversation c that a history call with this cursor asks for
Qualifying(c, before) ==
    {i \in DOMAIN messages :
        /\ messages[i].conversation = c
        /\ before \in DOMAIN CursorTimes
           => messages[i].created_at < CursorTimes[before]}

\* C24: a history call on a conversation returns at most 50 messages, all of
\* that conversation and each once; with a valid before cursor all of them are
\* strictly older than the cursor; they are the newest qualifying ones (no
\* qualifying message left out is newer than one returned, and none is left out
\* while the page has room); and they are listed in ascending creation order.
\* The page is what the query of the page finds in the store; the answer
\* carries that page.
PageIsRight(page, c, before) ==
    LET got == {page[p] : p \in DOMAIN page}
    IN  /\ Len(page) <= 50
        /\ Cardinality(got) = Len(page)
        /\ got \subseteq DOMAIN messages
        /\ \A i \in got : messages[i].conversation = c
        /\ before \in DOMAIN CursorTimes
           => \A i \in got : messages[i].created_at < CursorTimes[before]
        /\ got \subseteq Qualifying(c, before)
        /\ \A i \in Qualifying(c, before) \ got :
              /\ Len(page) = 50
              /\ \A j \in got :
                    messages[i].created_at <= messages[j].created_at
        /\ \A p, q \in DOMAIN page :
              p < q => messages[page[p]].created_at
                       <= messages[page[q]].created_at

C24_HistoryPage ==
    [][ /\ \A x \in Calls :
             /\ PageRead(x)
                => PageIsRight(calls'[x].page, calls'[x].conversation,
                               calls'[x].before)
             /\ (calls[x].pc = "more" /\ calls'[x].pc # "more")
                => /\ HistoryStep
                   /\ reply'.status = 200
                   /\ reply'.messages = calls[x].page
                   /\ reply'.conversation = calls[x].conversation
                   /\ reply'.before = calls[x].before
        /\ (EmptyAnswer /\ reply'.status = 200)
           => PageIsRight(reply'.messages, reply'.conversation, reply'.before)
      ]_vars

\* Alice asked for conversation 1 before instant 4: 53 messages qualify, the
\* page holds 50 of them, starts at instant 2, ends at instant 3 and leaves out
\* the two written at instant 1 and one of the three written at instant 2
C24_Witness ==
    /\ reply.op = "history" /\ reply.status = 200
    /\ reply.user = Alice /\ reply.conversation = 1
    /\ reply.before = <<"4", "Z">>
    /\ Len(reply.messages) = 50
    /\ messages[reply.messages[1]].created_at = 2
    /\ messages[reply.messages[3]].created_at = 3
    /\ messages[reply.messages[50]].created_at = 3
    /\ \A p \in 1..50 : reply.messages[p] \notin {1, 2, 10, 30, 56, 57}
    /\ Cardinality(Qualifying(1, reply.before)) = 53

\* the cookie headers that carry a non-empty access-token cookie, and the
\* token text each carries
CookieTokenOf ==
    [h \in { Cookie(<<"access_token", "=", "tokA">>),
             Cookie(<<"access_token", "=", "tokExpired">>),
             Cookie(<<"access_token", "=", "bad">>),
             Cookie(<<"access_token", "=", "tokNoSub">>),
             Cookie(<<"access_token", "=", "tokZed">>),
             Cookie(<<"access_token", "=", "tokA", "=", "x">>),
             Cookie(<<"other", "=", "1", ";", " ", "access_token", "=", "tokB">>),
             Cookie(<<" ", "access_token", " ", "=", " ", "tokA", " ">>) } |->
        LET v == h[1].value
        IN  IF v[1] = "other" THEN <<"tokB">>
            ELSE IF v[1] = " " THEN <<"tokA">>
            ELSE SubSeq(v, 3, Len(v))]

\* the well-formed query strings that carry a non-empty token parameter
QueryTokenOf ==
    [q \in { <<"token", "=", "tokA">>, <<"token", "=", "tokB">>,
             <<"token", "=", "tokExpired">>, <<"token", "=", "bad">>,
             <<"token", "=", "tokNoSub">>, <<"token", "=", "tokZed">>,
             <<"x", "=", "1", "&", "token", "=", "tokA">> } |->
        <<q[Len(q)]>>]

\* the identity a token text stands for: the valid tokens of Alice and Bob,
\* anonymous for every other text
TokenSubject(t) ==
    IF t = <<"tokA">> THEN UserIdentity(Alice)
    ELSE IF t = <<"tokB">> THEN UserIdentity(Bob)
    ELSE Anonymous

\* C25: when the handshake carries a non-empty access-token cookie, the
\* identity in the scope is the one that cookie token resolves to, whatever the
\* query string holds: an invalid cookie token gives anonymous even next to a
\* valid token parameter; the token parameter decides only when there is no
\* such cookie.
C25_CookieBeforeQuery ==
    scope # NoScope
    => /\ scope.headers \in DOMAIN CookieTokenOf
          => /\ ~scope.raised
             /\ scope.user = TokenSubject(CookieTokenOf[scope.headers])
       /\ ( /\ scope.headers \notin DOMAIN CookieTokenOf
            /\ scope.query_string \in DOMAIN QueryTokenOf )
          => /\ ~scope.raised
             /\ scope.user = TokenSubject(QueryTokenOf[scope.query_string])

\* a handshake with an invalid cookie token and Alice's valid token in the
\* query string resolved to anonymous, and connect() closed it as
\* unauthenticated
C25_Witness ==
    /\ scope # NoScope
    /\ scope.headers = Cookie(<<"access_token", "=", "bad">>)
    /\ scope.query_string = <<"token", "=", "tokA">>
    /\ scope.user = Anonymous
    /\ conn[1].state = "rejected"
    /\ conn[1].close_code = CloseUnauthenticated

\* C26: the authenticator never raises: every handshake leaves a resolved user
\* or the anonymous identity in the scope, and a missing, invalid or expired
\* token, a token without subject or with an unknown subject, and a query
\* string with an item of more than one '=' all give anonymous.
C26_AuthenticatorNeverRaises ==
    scope # NoScope
    => /\ ~scope.raised
       /\ scope.user \in Identities
       /\ scope.user # Anonymous
          => \/ /\ scope.headers \in DOMAIN CookieTokenOf
                /\ CookieTokenOf[scope.headers] \in {<<"tokA">>, <<"tokB">>}
             \/ /\ scope.query_string \in DOMAIN QueryTokenOf
                /\ QueryTokenOf[scope.query_string] \in {<<"tokA">>, <<"tokB">>}

\* C27: a chat_message sent over the socket is written to the store before
\* it is broadcast: a history read of the room's conversation that starts after
\* some connection was sent the chat_message frame returns a message with the
\* frame's content and sender.
\* the connections on the room of conversation cid, and the frames sent to
\* them
RoomOf(cid) ==
    {k \in Conns :
        /\ conn[k].room # <<>>
        /\ Len(Split(conn[k].room)) = 2
        /\ \E c \in conversations :
              /\ c.id = cid
              /\ <<c.participant_1, c.participant_2>> =
                     canonical_pair(Split(conn[k].room)[1],
                                    Split(conn[k].room)[2])}

SentIn(cid) ==
    UNION {{outbox[k][i] : i \in 1..Len(outbox[k])} : k \in RoomOf(cid)}

C27_HistoryShowsBroadcastMessage ==
    [][ /\ \A x \in Calls :
             PageRead(x)
             => \A f \in SentIn(calls'[x].conversation) :
                   f.type = "chat_message"
                   => \E p \in DOMAIN calls'[x].page :
                         /\ messages[calls'[x].page[p]].content = f.content
                         /\ messages[calls'[x].page[p]].sender = f.sender
        /\ (EmptyAnswer /\ reply'.status = 200)
           => \A f \in SentIn(reply'.conversation) : f.type # "chat_message"
      ]_vars

\* sequence a is the end of sequence b
IsSuffix(a, b) ==
    /\ Len(a) <= Len(b)
    /\ SubSeq(b, Len(b) - Len(a) + 1, Len(b)) = a

\* C28: two connections joined to one room observe the room's events in the
\* same order, the order of the group_send calls, however the handlers of
\* concurrent senders interleave: each group_send puts the same event at the
\* end of what every open member still has to handle, each member handles its
\* events first in first out, a handler puts nothing but an error frame on
\* its own socket, and so what two open members of a room still have to
\* handle always agrees (one is the end of the other).
C28_OneOrderPerRoom ==
    /\ [](\A j, k \in OpenConns :
             conn[j].room = conn[k].room
             => IsSuffix(queue[j], queue[k]) \/ IsSuffix(queue[k], queue[j]))
    /\ [][ \A k \in Conns :
             /\ (conn[k].state = "open" /\ conn'[k].state = "open"
                 /\ queue'[k] # queue[k])
                => \/ /\ queue[k] # <<>>
                      /\ queue'[k] = Tail(queue[k])
                      /\ outbox'[k] = outbox[k]
                             \o event_frames(conn[k].user.username,
                                             Head(queue[k]))
                   \/ /\ Len(queue'[k]) = Len(queue[k]) + 1
                      /\ SubSeq(queue'[k], 1, Len(queue[k])) = queue[k]
                      /\ outbox'[k] = outbox[k]
                      /\ \A j \in Conns :
                            (conn'[j].state = "open"
                             /\ conn'[j].room = conn'[k].room)
                            => /\ Len(queue'[j]) = Len(queue[j]) + 1
                               /\ SubSeq(queue'[j], 1, Len(queue[j])) = queue[j]
                               /\ queue'[j][Len(queue'[j])]
                                    = queue'[k][Len(queue'[k])]
             /\ outbox'[k] # outbox[k]
                => \/ queue[k] # <<>> /\ queue'[k] = Tail(queue[k])
                   \/ RecvStep(k) /\ OneErrorAppended(outbox[k], outbox'[k])
         ]_vars

\* Alice on connection 1 and Bob on connection 2 each sent a frame after
\* both had joined; Bob's handler enqueued first: both connections still have
\* to handle Bob's typing notice and then Alice's chat message, in that order
C28_Witness ==
    /\ conn[1].state = "open" /\ conn[2].state = "open"
    /\ conn[1].user.username = Alice /\ conn[2].user.username = Bob
    /\ nrecv = 2 /\ lastIn.k = 1
    /\ Len(queue[1]) = 2 /\ queue[2] = queue[1]
    /\ queue[1][1].type = "typing_indicator" /\ queue[1][1].username = Bob
    /\ queue[1][2].type = "chat_message" /\ queue[1][2].sender = Alice

\* the notices a handler may keep from a connection, and the user each names
NoticeTypes == {"typing_indicator", "read_receipt", "user_joined", "user_left"}
Subject(ev) == IF ev.type = "read_receipt" THEN ev.reader ELSE ev.username

\* C29 as stated: self-exclusion is per connection: of a typing or read
\* notice caused by the one frame received so far, only the connection that
\* received the frame is skipped; every other connection, the same user's
\* other tab included, is sent a frame
C29_ExclusionPerConnection ==
    [][ \A k \in Conns :
          ( /\ DispatchStep(k)
            /\ conn[k].state = "open" /\ conn'[k].state = "open"
            /\ nrecv = 1
            /\ Head(queue[k]).type \in {"typing_indicator", "read_receipt"} )
          => IF k = lastIn.k
             THEN outbox'[k] = outbox[k]
             ELSE Len(outbox'[k]) = Len(outbox[k]) + 1
      ]_vars

\* C29 (amended): self-exclusion on typing, read-receipt, join and leave
\* notices is per user: a connection is sent the notice exactly when the notice
\* names another user than its own, so with two connections of one user in a
\* room a notice caused on one of them reaches neither of them, and reaches the
\* connections of the other participant.
C29_ExclusionPerUser ==
    [][ \A k \in Conns :
          ( /\ DispatchStep(k)
            /\ conn[k].state = "open" /\ conn'[k].state = "open"
            /\ Head(queue[k]).type \in NoticeTypes )
          => LET ev == Head(queue[k])
                 me == conn[k].user.username
             IN  IF Subject(ev) = me
                 THEN outbox'[k] = outbox[k]
                 ELSE /\ Len(outbox'[k]) = Len(outbox[k]) + 1
                      /\ SubSeq(outbox'[k], 1, Len(outbox[k])) = outbox[k]
                      /\ LET f == outbox'[k][Len(outbox'[k])]
                         IN  /\ f.type = IF ev.type = "typing_indicator"
                                         THEN "typing" ELSE ev.type
                             /\ Subject(f) = Subject(ev)
                             /\ Subject(f) # me
      ]_vars

\* Alice is joined on connections 1 and 2; her typing_start on connection 1 is
\* still waiting there, behind nothing, so connection 2 was joined when it was
\* sent; connection 2 has handled it and was sent no frame
C29_Witness ==
    /\ conn[1].state = "open" /\ conn[2].state = "open"
    /\ conn[1].user.username = Alice /\ conn[2].user.username = Alice
    /\ conn[1].room = conn[2].room
    /\ nrecv = 1 /\ lastIn.k = 1
    /\ Len(queue[1]) = 1 /\ queue[1][1].type = "typing_indicator"
    /\ queue[1][1].username = Alice
    /\ queue[2] = <<>>
    /\ outbox[2] = <<>>

\* the list a mark_read frame carries: its message_ids, or [] when it has none
IdsOf(frame) ==
    IF frame.message_ids = Absent THEN <<>> ELSE frame.message_ids.val

\* C30: a mark_read frame of reader R with message_ids L puts the event
\* read_receipt{reader: R, message_ids: L} on the channel of every open member
\* of the room; a connection of another user than R that handles it is sent the
\* frame read_receipt{reader: R, message_ids: L}, a connection of R is sent
\* nothing; and neither step changes any stored Message, whatever L holds.
C30_ReadReceiptIsNoticeOnly ==
    [][ \A k \in Conns :
          /\ ( /\ RecvStep(k)
               /\ lastIn'.frame.json = "object"
               /\ lastIn'.frame.type = TypeStr("mark_read") )
             => /\ messages' = messages
                /\ conversations' = conversations
                /\ outbox' = outbox
                /\ conn' = conn
                /\ \A j \in RoomMates(k) :
                      /\ Len(queue'[j]) = Len(queue[j]) + 1
                      /\ SubSeq(queue'[j], 1, Len(queue[j])) = queue[j]
                      /\ LET ev == queue'[j][Len(queue'[j])]
                         IN  /\ ev.type = "read_receipt"
                             /\ ev.reader = conn[k].user.username
                             /\ ev.message_ids = IdsOf(lastIn'.frame)
          /\ ( /\ DispatchStep(k)
               /\ conn[k].state = "open" /\ conn'[k].state = "open"
               /\ Head(queue[k]).type = "read_receipt" )
             => /\ messages' = messages
                /\ conversations' = conversations
                /\ IF Head(queue[k]).reader = conn[k].user.username
                   THEN outbox'[k] = outbox[k]
                   ELSE outbox'[k] = outbox[k] \o
                          <<[Frame("read_receipt") EXCEPT
                                !.reader = Head(queue[k]).reader,
                                !.message_ids = Head(queue[k]).message_ids]>>
      ]_vars

\* Bob's message 1 is in the store; Alice's mark_read frame with the ids 1 and
\* 7 reached Bob's connection as a read_receipt naming her and both ids, her
\* own connection handled the event and was sent nothing, and message 1 is
\* still unread
C30_Witness ==
    /\ conn[1].state = "open" /\ conn[1].user.username = Alice
    /\ conn[2].state = "open" /\ conn[2].user.username = Bob
    /\ lastIn.k = 1 /\ lastIn.frame.type = TypeStr("mark_read")
    /\ queue[1] = <<>>
    /\ \A i \in 1..Len(outbox[1]) : outbox[1][i].type # "read_receipt"
    /\ \E i \in 1..Len(outbox[2]) :
          /\ outbox[2][i].type = "read_receipt"
          /\ outbox[2][i].reader = Alice
          /\ outbox[2][i].message_ids = <<1, 7>>
    /\ Len(messages) = 1 /\ messages[1].id = 1 /\ messages[1].sender = Bob
    /\ ~messages[1].is_read /\ messages[1].read_at = NoTime

\* connection k was refused by connect(), and why: the identity is anonymous,
\* or it is not one of the tokens of the room path, or (being one of them) the
\* mutual-follow check refused it
Refused(k) == conn[k].close_code # NoCode
RefusalReason(k) ==
    IF ~conn[k].user.auth THEN "anonymous"
    ELSE IF \A i \in 1..Len(Split(conn[k].room)) :
                Split(conn[k].room)[i] # conn[k].user.username
         THEN "not a participant"
         ELSE "forbidden"

\* C31 as stated: the three refusal reasons have three pairwise different
\* close codes: two connections refused for different reasons were closed with
\* different codes
C31_ThreeCloseCodes ==
    \A j, k \in Conns :
        (Refused(j) /\ Refused(k) /\ RefusalReason(j) # RefusalReason(k))
        => conn[j].close_code # conn[k].close_code

\* C31 (amended): the close code tells an authentication failure from a
\* permission failure and no more: an anonymous identity is closed with 4001,
\* an identity that is not a participant and a pair the mutual-follow gate
\* refuses are both closed with 4003.
C31_TwoCloseCodes ==
    /\ CloseUnauthenticated # ClosePermissionDenied
    /\ \A k \in Conns :
          Refused(k)
          => conn[k].close_code =
                 IF RefusalReason(k) = "anonymous" THEN CloseUnauthenticated
                 ELSE ClosePermissionDenied
    /\ \A j, k \in Conns :
          (Refused(j) /\ Refused(k))
          => ( conn[j].close_code = conn[k].close_code
               <=> ( RefusalReason(j) = "anonymous"
                     <=> RefusalReason(k) = "anonymous" ) )

\* Carol was refused on a_b, where she is no participant, and Bob was
\* refused on b_c, where he and Carol do not follow each other: both with 4003
C31_Witness ==
    /\ conn[1].state = "rejected" /\ conn[1].user = UserIdentity(Carol)
    /\ conn[1].room = Join(<<Alice, Bob>>)
    /\ RefusalReason(1) = "not a participant"
    /\ conn[2].state = "rejected" /\ conn[2].user = UserIdentity(Bob)
    /\ conn[2].room = Join(<<Bob, Carol>>)
    /\ ~MutualFollow(Bob, Carol)
    /\ RefusalReason(2) = "forbidden"
    /\ conn[1].close_code = ClosePermissionDenied
    /\ conn[2].close_code = ClosePermissionDenied

\* in this step an unread-count call answers
UnreadStep == reply' # reply /\ reply'.op = "unread_count"

\* this step is a successful send: one Message row is added
SendStep == nsent' = nsent + 1 /\ Len(messages') = Len(messages) + 1

\* the stored messages user u has not read: unread, not sent by u, in a
\* conversation of u
UnreadOf(msgs, convs, u) ==
    {i \in DOMAIN msgs :
        /\ ~msgs[i].is_read
        /\ msgs[i].sender # u
        /\ \E c \in convs : /\ c.id = msgs[i].conversation
                            /\ u \in {c.participant_1, c.participant_2}}

\* C32: the unread-count call of user U returns the number of stored messages
\* that are unread, not sent by U and in a conversation of U (the number there
\* was at some moment while the call ran); a successful send raises the count
\* of the other participant by one and leaves the sender's count unchanged; a
\* mark-all-read of U on a conversation lowers U's count by exactly the number
\* that call returns.
C32_UnreadCount ==
    [][ /\ UnreadStep
           => IF calls' = calls
              THEN reply'.unread_count =
                     Cardinality(UnreadOf(messages, conversations, reply'.user))
              ELSE \E x \in Calls :
                     /\ calls[x].pc = "count" /\ calls'[x].pc = "idle"
                     /\ reply'.unread_count \in calls[x].seen
        /\ \A u \in Users :
              sum_unread(messages, for_user(conversations, u), u)
                  = Cardinality(UnreadOf(messages, conversations, u))
        /\ SendStep
           => LET m == messages'[Len(messages')]
              IN  \A u \in Users :
                     sum_unread(messages', for_user(conversations', u), u)
                       = sum_unread(messages, for_user(conversations, u), u)
                         + ( IF /\ u # m.sender
                                /\ \E c \in conversations' :
                                      /\ c.id = m.conversation
                                      /\ u \in {c.participant_1, c.participant_2}
                             THEN 1 ELSE 0 )
        /\ \A u \in Users, c \in ReadIds :
              (MarkStep(u, c) /\ reply'.status = 200)
              => sum_unread(messages', for_user(conversations', u), u)
                   = sum_unread(messages, for_user(conversations, u), u)
                     - reply'.marked_read
      ]_vars

\* the user a frame comes from: the sender of a chat message, the reader of
\* a read receipt, the user a typing, join or leave notice names
Originator(f) ==
    IF f.type = "chat_message" THEN f.sender
    ELSE IF f.type = "read_receipt" THEN f.reader
    ELSE f.username

\* C33: a frame originated by user A is only delivered to a connection of A
\* or of a user who was a mutual follower of A when that connection was
\* authorized, and no connects put two users into one group who were not
\* checked against each other.  Stated for the runs in which no follow was
\* toggled yet, where the follow graph is the one every authorization saw.
C33_FramesStayBetweenMutualFollowers ==
    ntoggle = 0
    => /\ \A k \in Conns : \A i \in 1..Len(outbox[k]) :
             outbox[k][i].type \in {"chat_message", "typing", "read_receipt",
                                    "user_joined", "user_left"}
             => \/ Originator(outbox[k][i]) = conn[k].user.username
                \/ MutualFollow(Originator(outbox[k][i]), conn[k].user.username)
       /\ \A j, k \in OpenConns :
             ( /\ <<room_group_name(conn[j].room), j>> \in groups
               /\ <<room_group_name(conn[j].room), k>> \in groups )
             => \/ conn[j].user = conn[k].user
                \/ MutualFollow(conn[j].user.username, conn[k].user.username)

\* the two participants of conversation c follow each other
ParticipantsMutual(c) ==
    /\ c.participant_1 \in followers[c.participant_2]
    /\ c.participant_2 \in followers[c.participant_1]

\* connection k was attempted by a participant of c on the room name the
\* REST API returns for c
OnRoomOf(k, c) ==
    /\ conn[k].state # "idle"
    /\ conn[k].room = get_room_name(c)
    /\ conn[k].user.auth
    /\ conn[k].user.username \in {c.participant_1, c.participant_2}

(* C34: for every stored conversation whose participants are mutual
   followers, the room name that get_room_name returns is accepted by the
   connection authorizer for both participants, also when a username
   contains the separator: no participant of such a conversation is refused
   on that room name. *)
C34_RoomNameAccepted ==
    \A k \in Conns, c \in conversations :
        (OnRoomOf(k, c) /\ ParticipantsMutual(c))
            => conn[k].close_code # ClosePermissionDenied

\* connection k passed the three checks of connect() and its disconnect()
\* has not ended; its session is running
Passed(k) == conn[k].state \in {"joined", "accepted", "open", "leaving"}
Connected(k) == conn[k].accepted /\ conn[k].state = "open"

\* the group memberships are those of the connections that passed the checks
\* and have not disconnected, each in the group of its own room path, and
\* every connection whose session is running is a member
MembersAreConnected ==
    /\ groups \subseteq {<<room_group_name(conn[k].room), k>> :
                             k \in {j \in Conns : Passed(j)}}
    /\ \A k \in Conns :
          Connected(k) => <<room_group_name(conn[k].room), k>> \in groups

\* a connection whose disconnect() has run is sent nothing more
NothingAfterDisconnect ==
    \A k \in Conns : conn[k].state = "closed" => outbox'[k] = outbox[k]

(* C35: a connection is a member of a group exactly when it passed all
   three checks of connect() and has not yet disconnected; it is a member
   of at most one group, the one named by its own room path; once its
   disconnect has been processed it is in no group and no later broadcast
   is delivered to it. *)
C35_MembershipIsConnection ==
    []MembersAreConnected /\ [][NothingAfterDisconnect]_vars

\* in this step a call of the client's walk answers
WalkStep == walk' # walk /\ reply' # reply

\* the messages of conversation c that were stored when the walk began
StoredAtStart(c) ==
    {i \in DOMAIN messages : i <= walk.size /\ messages[i].conversation = c}

\* a finished walk of a participant returned every message of the
\* conversation once
WalkCoversAll ==
    (walk.state = "done" /\ Participates(walk.user, walk.conversation))
    => /\ \A i \in StoredAtStart(walk.conversation) :
              Cardinality({n \in DOMAIN walk.returned : walk.returned[n] = i}) = 1
       /\ \A n \in DOMAIN walk.returned :
              walk.returned[n] \in StoredAtStart(walk.conversation)

\* has_more of a page of the walk: a message of the conversation, not yet
\* returned, is older than the page
WalkHasMore ==
    (WalkStep /\ reply'.status = 200)
    => (reply'.has_more
        <=> /\ reply'.messages # <<>>
            /\ \E i \in DOMAIN messages :
                  /\ messages[i].conversation = reply'.conversation
                  /\ \A n \in DOMAIN walk'.returned : walk'.returned[n] # i
                  /\ \A n \in DOMAIN reply'.messages :
                         messages[i].created_at
                             < messages[reply'.messages[n]].created_at)

(* C36: walking the history of a conversation backwards with the before
   cursor (first call without before, each next call with before = the
   created_at of the oldest message of the previous page, until has_more is
   false) returns every message of the conversation exactly once, also when
   several messages share one created_at; and has_more is true exactly when
   the conversation holds a message, not yet returned, older than the page. *)
C36_WalkReturnsEachOnce ==
    []WalkCoversAll /\ [][WalkHasMore]_vars

\* this step is a REST read or mark-read call
RestStep == reply' # reply

\* the conversations user u does not participate in
ForeignTo(u) == {c \in conversations : ~Participates(u, c.id)}

\* the messages of conversation c
MessagesOf(msgs, c) == {i \in DOMAIN msgs : msgs[i].conversation = c}

\* what user u has unread in the stored conversation d
UnreadIn(d, u) ==
    Cardinality({i \in MessagesOf(messages, d.id) :
                    ~messages[i].is_read /\ messages[i].sender # u})

(* C37: a user who is not a participant of conversation C can neither
   observe nor change C through the REST API: the conversation detail, the
   message history and mark-all-read answer not-found for C and carry nothing
   of it, C is never in that user's conversation list and never counted in
   that user's unread count, and the mark-all-read attempt leaves every
   message of C as it was. *)
C37_NonParticipantSeesNothing ==
    [][ /\ RestStep
           => \A c \in ForeignTo(reply'.user) :
                 /\ \A i \in MessagesOf(messages, c.id) :
                       messages'[i] = messages[i]
                 /\ (reply'.op \in {"detail", "history", "mark_read"}
                     /\ reply'.conversation = c.id)
                    => reply'.status = 404
                 /\ (reply'.op \in {"detail", "history"}
                     /\ reply'.conversation = c.id)
                    => reply'.messages = <<>>
                 /\ (reply'.op = "detail" /\ reply'.conversation = c.id)
                    => reply'.items = {}
                 /\ reply'.op = "list"
                    => \A item \in reply'.conversations : item.id # c.id
        /\ \A x \in Calls :
              /\ calls'[x].pc = "count"
                 => /\ \A c \in calls'[x].todo :
                          Participates(calls'[x].user, c.id)
                    /\ calls[x].pc = "idle" => calls'[x].count = 0
                    /\ (calls[x].pc = "count"
                        /\ calls'[x].todo # calls[x].todo)
                       => \E d \in calls[x].todo :
                             /\ calls'[x].todo = calls[x].todo \ {d}
                             /\ calls'[x].count =
                                    calls[x].count + UnreadIn(d, calls[x].user)
              /\ (calls[x].pc = "count" /\ calls'[x].pc = "idle")
                 => /\ UnreadStep
                    /\ reply'.user = calls[x].user
                    /\ \E d \in calls[x].todo :
                          /\ calls[x].todo = {d}
                          /\ Participates(calls[x].user, d.id)
                          /\ reply'.unread_count =
                                 calls[x].count + UnreadIn(d, calls[x].user)
      ]_vars

\* Carol's mark-all-read on the conversation of Alice and Bob was answered
\* not-found while that conversation holds an unread message
C37_Witness ==
    /\ reply.op = "mark_read"
    /\ reply.user = Carol
    /\ reply.conversation = 1
    /\ reply.status = 404
    /\ \E i \in MessagesOf(messages, 1) : ~messages[i].is_read

====
